---------------------------- MODULE Spec2Model ----------------------------
(***************************************************************************)
(* A model of the metadata transaction core of nebula-storage:            *)
(*   - BaseProcessor (KV facade, composite ops, autoIncrementId),         *)
(*   - Snapshot (blockingWrites / createSnapshot / getSpacesHosts),       *)
(*   - CreateBackupProcessor::process,                                     *)
(*   - DropSpaceProcessor::process.                                        *)
(* The replicated KV engine is a map from keys to values; a write is in   *)
(* flight from the moment a thread hands it to the engine until the       *)
(* engine applies it and fires the callback that posts the thread's baton.*)
(***************************************************************************)
EXTENDS Integers, Sequences, FiniteSets, TLC

(***************************************************************************)
(* Bounds of the model.                                                    *)
(***************************************************************************)
NumCallers == 3        \* threads calling autoIncrementId()
MaxStartId == 2        \* largest counter value stored before the calls

IdThreads == {<<"id", i>> : i \in 1..NumCallers}

(***************************************************************************)
(* Error codes.  kvstore::ResultCode values are prefixed ERR_, the meta    *)
(* service's cpp2::ErrorCode values are prefixed E_.                       *)
(***************************************************************************)
KvErrors == {"ERR_LEADER_CHANGED", "ERR_UNKNOWN"}

MetaCommonTo(code) ==
    CASE code = "SUCCEEDED"          -> "SUCCEEDED"
      [] code = "ERR_KEY_NOT_FOUND"  -> "E_NOT_FOUND"
      [] code = "ERR_LEADER_CHANGED" -> "E_LEADER_CHANGED"
      [] OTHER                       -> "E_STORE_FAILURE"

VARIABLES
    store,      \* the meta partition: key -> value, DOMAIN = keys present
    snapLog,    \* <<name, status>> of every snapshot record the engine applied, in order
    locks,      \* LockUtils: lock name -> [w: writers, r: readers]
    inflight,   \* thread -> writes handed to the engine, callback not yet fired
    baton,      \* thread -> result codes the engine's callbacks have delivered
    clock,     \* the wall clock, in milliseconds
    idPc,       \* autoIncrementId caller -> position in the function
    idLocal,    \* autoIncrementId caller -> the local `id`
    idRet,      \* autoIncrementId caller -> what the call returned
    initId,     \* the counter value stored before the first call (0: absent)
    bk,         \* CreateBackupProcessor -> its locals, error code slot and position
    snapSpaces, \* Snapshot::spaces_ of the Snapshot singleton
    cpDone,     \* <<space, host, name>> of every createSnapshot RPC that returned ok
    stamps,     \* timestamp strings genTimestampStr() has issued so far
    dp,         \* DropSpaceProcessor -> its locals, error code slot and position
    lh,         \* ListHostsProcessor -> its locals, error code slot and position
    op,         \* caller of one composite operation -> its arguments, slot and position
    call        \* one application of a function: its name, arguments and result

kvVars   == <<store, snapLog, inflight, baton>>
idVars   == <<idPc, idLocal, idRet, initId>>
bkVars   == <<bk, snapSpaces, cpDone, stamps>>
dropVars == <<dp>>
restVars == <<lh, op, call>>
vars == <<store, snapLog, locks, inflight, baton, clock, idPc, idLocal, idRet, initId,
          bk, snapSpaces, cpDone, stamps, dp, lh, op, call>>

(***************************************************************************)
(* The KV engine.                                                          *)
(***************************************************************************)
kIdKey == <<"__id__">>

KvHas(s, k) == k \in DOMAIN s

KvPutOne(s, k, v) == [x \in (DOMAIN s) \cup {k} |-> IF x = k THEN v ELSE s[x]]

\* asyncMultiPut applies the batch in order: a later entry for a key wins.
RECURSIVE KvMultiPut(_, _)
KvMultiPut(s, kvs) ==
    IF kvs = <<>> THEN s
    ELSE KvMultiPut(KvPutOne(s, Head(kvs)[1], Head(kvs)[2]), Tail(kvs))

KvMultiRemove(s, keys) == [x \in (DOMAIN s) \ keys |-> s[x]]

\* asyncRemoveRange: the keys of the "k" family in [start, end).
KvRemoveRange(s, start, end) ==
    [x \in {k \in DOMAIN s : ~(k[1] = "k" /\ start <= k[2] /\ k[2] < end)} |-> s[x]]

EmptyStore == [x \in {} |-> 0]

\* The snapshot records of a batch, in the order the engine applies them.
RECURSIVE SnapshotWrites(_)
SnapshotWrites(kvs) ==
    IF kvs = <<>> THEN <<>>
    ELSE IF Head(kvs)[1][1] = "snapshot"
         THEN <<<<Head(kvs)[1][2], Head(kvs)[2].status>>>> \o SnapshotWrites(Tail(kvs))
         ELSE SnapshotWrites(Tail(kvs))

NoWrite == <<>>

\* The engine applies the oldest write a thread has in flight, or fails it, and
\* fires its callback exactly once.
EngineApply(t) ==
    /\ inflight[t] # NoWrite
    /\ \E code \in {"SUCCEEDED"} \cup KvErrors :
        /\ store' = IF code # "SUCCEEDED" THEN store
                    ELSE IF Head(inflight[t]).op = "put"
                         THEN KvMultiPut(store, Head(inflight[t]).kvs)
                         ELSE IF Head(inflight[t]).op = "remove"
                         THEN KvMultiRemove(store, Head(inflight[t]).keys)
                         ELSE KvRemoveRange(store, Head(inflight[t]).start,
                                            Head(inflight[t]).end)
        /\ snapLog' = IF code = "SUCCEEDED" /\ Head(inflight[t]).op = "put"
                      THEN snapLog \o SnapshotWrites(Head(inflight[t]).kvs)
                      ELSE snapLog
        /\ baton' = [baton EXCEPT ![t] = Append(@, code)]
    /\ inflight' = [inflight EXCEPT ![t] = Tail(@)]

(***************************************************************************)
(* LockUtils: folly::SharedMutex per name.                                 *)
(***************************************************************************)
LockNames == {"id", "space", "snapshot", "listener"}

FreeLock == [w |-> {}, r |-> {}]

CanWrite(l) == locks[l].w = {} /\ locks[l].r = {}
CanRead(l)  == locks[l].w = {}

WriteHolder(l, t) == [locks EXCEPT ![l].w = @ \cup {t}]
ReadHolder(l, t)  == [locks EXCEPT ![l].r = @ \cup {t}]
Release(lk, l, t) == [lk EXCEPT ![l].w = @ \ {t}, ![l].r = @ \ {t}]

\* A holder local to a function is destroyed when the function returns.
ScopeKept(lk, l, t) == lk
ScopeExit(lk, l, t) == Release(lk, l, t)

(***************************************************************************)
(* BaseProcessor::autoIncrementId                                          *)
(***************************************************************************)
Int32Max == 2147483647
Int32Min == (-Int32Max) - 1

\* `+ 1` on an int32_t: the values a build can produce.  Signed overflow is
\* undefined; a build either wraps or keeps the operand.
Inc32(v) == IF v = Int32Max THEN {Int32Min, Int32Max} ELSE {v + 1}

IdLockShared(t) ==
    /\ idPc[t] = "start"
    /\ CanRead("id")
    /\ locks' = ReadHolder("id", t)
    /\ idPc' = [idPc EXCEPT ![t] = "locked"]
    /\ UNCHANGED <<kvVars, clock, idLocal, idRet, initId, bkVars, dropVars, restVars>>

\* folly::SharedMutex::WriteHolder holder(LockUtils::idLock());
IdLock(t) ==
    /\ idPc[t] = "start"
    /\ CanWrite("id")
    /\ locks' = WriteHolder("id", t)
    /\ idPc' = [idPc EXCEPT ![t] = "locked"]
    /\ UNCHANGED <<kvVars, clock, idLocal, idRet, initId, bkVars, dropVars, restVars>>

\* The values `id` can take after a successful or key-not-found read.
IdAfterReadFromZero(s) == IF KvHas(s, kIdKey) THEN Inc32(s[kIdKey]) ELSE {0}
IdAfterRead(s) == IF KvHas(s, kIdKey) THEN Inc32(s[kIdKey]) ELSE {1}

\* kvstore_->get(kIdKey): the read, and the choice of `id`.
IdGet(t) ==
    /\ idPc[t] = "locked"
    /\ \/ /\ \E id \in IdAfterRead(store) : idLocal' = [idLocal EXCEPT ![t] = id]
          /\ idPc' = [idPc EXCEPT ![t] = "put"]
          /\ UNCHANGED <<locks, idRet>>
       \/ \E code \in KvErrors :
          /\ idRet' = [idRet EXCEPT ![t] = [ok |-> FALSE, code |-> MetaCommonTo(code), id |-> 0]]
          /\ idPc' = [idPc EXCEPT ![t] = "done"]
          /\ locks' = Release(locks, "id", t)
          /\ UNCHANGED idLocal
    /\ UNCHANGED <<kvVars, clock, initId, bkVars, dropVars, restVars>>

\* kvstore_->asyncMultiPut({kIdKey, id}, callback); baton.wait() follows.
IdPut(t) ==
    /\ idPc[t] = "put"
    /\ inflight' = [inflight EXCEPT ![t] =
                      Append(@, [op |-> "put", kvs |-> <<<<kIdKey, idLocal[t]>>>>])]
    /\ idPc' = [idPc EXCEPT ![t] = "wait"]
    /\ UNCHANGED <<store, snapLog, locks, baton, clock, idLocal, idRet, initId, bkVars, dropVars, restVars>>

\* The return without the test of `ret`.
IdReturnUnchecked(t) ==
    /\ idPc[t] = "wait"
    /\ baton[t] # <<>>
    /\ idRet' = [idRet EXCEPT ![t] = [ok |-> TRUE, code |-> "SUCCEEDED", id |-> idLocal[t]]]
    /\ baton' = [baton EXCEPT ![t] = Tail(@)]
    /\ idPc' = [idPc EXCEPT ![t] = "done"]
    /\ locks' = Release(locks, "id", t)
    /\ UNCHANGED <<store, snapLog, inflight, clock, idLocal, initId, bkVars, dropVars, restVars>>

\* baton.wait() returns once the callback has stored `ret`; the holder is released
\* on return.
IdReturn(t) ==
    /\ idPc[t] = "wait"
    /\ baton[t] # <<>>
    /\ idRet' = [idRet EXCEPT ![t] =
                   IF Head(baton[t]) = "SUCCEEDED"
                   THEN [ok |-> TRUE, code |-> "SUCCEEDED", id |-> idLocal[t]]
                   ELSE [ok |-> FALSE, code |-> MetaCommonTo(Head(baton[t])), id |-> 0]]
    /\ baton' = [baton EXCEPT ![t] = Tail(@)]
    /\ idPc' = [idPc EXCEPT ![t] = "done"]
    /\ locks' = Release(locks, "id", t)
    /\ UNCHANGED <<store, snapLog, inflight, clock, idLocal, initId, bkVars, dropVars, restVars>>

IdEngine(t) ==
    /\ EngineApply(t)
    /\ UNCHANGED <<locks, clock, idVars, bkVars, dropVars, restVars>>

NoRet == [ok |-> FALSE, code |-> "NONE", id |-> 0]

InitId ==
    /\ initId \in 0..MaxStartId
    /\ store \in {EmptyStore, KvPutOne(EmptyStore, kIdKey, initId)}
    /\ (initId # 0 => KvHas(store, kIdKey))
    /\ snapLog = <<>>
    /\ locks = [l \in LockNames |-> FreeLock]
    /\ inflight = [t \in IdThreads |-> NoWrite]
    /\ baton = [t \in IdThreads |-> <<>>]
    /\ idPc = [t \in IdThreads |-> "start"]
    /\ idLocal = [t \in IdThreads |-> 0]
    /\ idRet = [t \in IdThreads |-> NoRet]
    /\ clock = 0
    /\ bk = <<>>
    /\ snapSpaces = {}
    /\ cpDone = {}
    /\ stamps = 0
    /\ dp = <<>>
    /\ lh = <<>> /\ op = <<>> /\ call = <<>>

NextId ==
    \E t \in IdThreads :
        \/ IdLock(t)
        \/ IdGet(t)
        \/ IdPut(t)
        \/ IdEngine(t)
        \/ IdReturn(t)

SpecId == InitId /\ [][NextId]_vars

\* The callers of SpecId over a counter that has reached the top of the int32
\* range: the stored value is one of the last MaxStartId + 1 values of int32_t.
TopStartIds == {Int32Max - k : k \in 0..MaxStartId}

InitIdTop ==
    /\ initId \in TopStartIds
    /\ store = KvPutOne(EmptyStore, kIdKey, initId)
    /\ snapLog = <<>>
    /\ locks = [l \in LockNames |-> FreeLock]
    /\ inflight = [t \in IdThreads |-> NoWrite]
    /\ baton = [t \in IdThreads |-> <<>>]
    /\ idPc = [t \in IdThreads |-> "start"]
    /\ idLocal = [t \in IdThreads |-> 0]
    /\ idRet = [t \in IdThreads |-> NoRet]
    /\ clock = 0
    /\ bk = <<>>
    /\ snapSpaces = {}
    /\ cpDone = {}
    /\ stamps = 0
    /\ dp = <<>>
    /\ lh = <<>> /\ op = <<>> /\ call = <<>>

SpecIdTop == InitIdTop /\ [][NextId]_vars

(***************************************************************************)
(* The cluster of the backup and drop-space models: storage hosts, spaces  *)
(* and the key families of MetaServiceUtils.                               *)
(***************************************************************************)
NumBackups == 1        \* CreateBackup requests

Hosts    == {1, 2, 3}
SpaceIds == {1, 2}
SpaceNameOf == <<"s1", "s2">>
SpaceNames  == {SpaceNameOf[i] : i \in SpaceIds}

BackupProcs == {<<"backup", i>> : i \in 1..NumBackups}

SpaceKey(id)        == <<"space", id>>
IndexSpaceKey(name) == <<"index_space", name>>
PartKey(id, part)   == <<"part", id, part>>
HostKey(h)          == <<"host", h>>
SnapshotKey(name)   == <<"snapshot", name>>
RebuildIndexStatusKey(id, index) == <<"rebuild", id, index>>
SnapshotVal(status, hosts) == [status |-> status, hosts |-> hosts]

KvPrefix(s, family) == {k \in DOMAIN s : k[1] = family}
KvPrefixOf(s, family, id) == {k \in DOMAIN s : k[1] = family /\ k[2] = id}

\* Outcome of a synchronous read (get / prefix / multiGet) of the local store.
KvReadCodes == {"SUCCEEDED"} \cup KvErrors

HeartbeatIntervalSecs == 10
ExpiredTimeFactor == 5
ActiveThresholdMs == HeartbeatIntervalSecs * ExpiredTimeFactor * 1000

\* ActiveHostsMan::getActiveHosts: the storage hosts with a recent heartbeat.
GetActiveHosts(s, now) ==
    {k[2] : k \in {x \in KvPrefix(s, "host") :
                      /\ s[x].role = "STORAGE"
                      /\ now - s[x].lastHB < ActiveThresholdMs}}

\* MetaServiceUtils::genTimestampStr: a fresh string at every invocation.
GenTimestampStr(issued) == issued + 1

\* folly::format("BACKUP_{}", ts)
BackupName(ts) == ts

(***************************************************************************)
(* Snapshot (the singleton of SnapShot.cpp).                               *)
(***************************************************************************)
PairLess(x, y) == x[1] < y[1] \/ (x[1] = y[1] /\ x[2] < y[2])

\* Iteration order of std::map<GraphSpaceID, std::set<HostAddr>>.
RECURSIVE SortPairs(_)
SortPairs(S) ==
    IF S = {} THEN <<>>
    ELSE LET m == CHOOSE x \in S : \A y \in S : x = y \/ PairLess(x, y)
         IN  <<m>> \o SortPairs(S \ {m})

\* Snapshot::getSpacesHosts over a successful prefix scan: the <<space, host>> pairs
\* of the part table, restricted to spaces_ when spaces_ is not empty.
GetSpacesHostsUnfiltered(s, spaces) ==
    UNION {{<<k[2], h>> : h \in s[k]} : k \in KvPrefix(s, "part")}

GetSpacesHosts(s, spaces) ==
    UNION {{<<k[2], h>> : h \in s[k]} :
              k \in {x \in KvPrefix(s, "part") : spaces = {} \/ x[2] \in spaces}}

\* The error the three Snapshot operations return when getSpacesHosts fails.
SpacesHostsError(kv) ==
    IF MetaCommonTo(kv) # "E_LEADER_CHANGED" THEN "E_STORE_FAILURE" ELSE MetaCommonTo(kv)

Rpc(kind, t, ok) == [kind |-> kind, space |-> t[1], host |-> t[2], ok |-> ok]

\* The loops of Snapshot::blockingWrites: `ts` the pairs left, `fails` the pairs whose
\* RPC fails, `skip` the spaces whose inner loop was left by `break`.
RECURSIVE BlockingLoopBreakAlways(_, _, _, _)
BlockingLoopBreakAlways(sign, ts, fails, skip) ==
    IF ts = <<>> THEN <<>>
    ELSE IF Head(ts)[1] \in skip THEN BlockingLoopBreakAlways(sign, Tail(ts), fails, skip)
    ELSE <<Rpc(sign, Head(ts), Head(ts) \notin fails)>>
             \o BlockingLoopBreakAlways(sign, Tail(ts), fails,
                    IF Head(ts) \in fails THEN skip \cup {Head(ts)[1]} ELSE skip)

RECURSIVE BlockingLoop(_, _, _, _)
BlockingLoop(sign, ts, fails, skip) ==
    IF ts = <<>> THEN <<>>
    ELSE IF Head(ts)[1] \in skip THEN BlockingLoop(sign, Tail(ts), fails, skip)
    ELSE <<Rpc(sign, Head(ts), Head(ts) \notin fails)>>
             \o BlockingLoop(sign, Tail(ts), fails,
                    IF Head(ts) \in fails /\ sign = "BLOCK_ON"
                    THEN skip \cup {Head(ts)[1]} ELSE skip)

AllOk(sent) == \A i \in 1..Len(sent) : sent[i].ok

BlockingRetAlwaysOk(sent) == "SUCCEEDED"
BlockingRet(sent) == IF AllOk(sent) THEN "SUCCEEDED" ELSE "E_BLOCK_WRITE_FAILURE"

\* Snapshot::blockingWrites(sign): `kv` the outcome of the part-table scan.
BlockingWrites(sign, s, spaces, kv, fails) ==
    IF kv # "SUCCEEDED" THEN [ret |-> SpacesHostsError(kv), sent |-> <<>>]
    ELSE LET sent == BlockingLoop(sign, SortPairs(GetSpacesHosts(s, spaces)), fails, {})
         IN  [ret |-> BlockingRet(sent), sent |-> sent]

\* The loops of Snapshot::createSnapshot: the first failing RPC returns.
RECURSIVE SnapshotLoopAll(_, _)
SnapshotLoopAll(ts, fails) ==
    IF ts = <<>> THEN <<>>
    ELSE <<Rpc("SNAPSHOT", Head(ts), Head(ts) \notin fails)>> \o SnapshotLoopAll(Tail(ts), fails)

RECURSIVE SnapshotLoop(_, _)
SnapshotLoop(ts, fails) ==
    IF ts = <<>> THEN <<>>
    ELSE IF Head(ts) \in fails THEN <<Rpc("SNAPSHOT", Head(ts), FALSE)>>
    ELSE <<Rpc("SNAPSHOT", Head(ts), TRUE)>> \o SnapshotLoop(Tail(ts), fails)

SnapshotRetAlwaysOk(sent) == "SUCCEEDED"
SnapshotRet(sent) == IF AllOk(sent) THEN "SUCCEEDED" ELSE "E_RPC_FAILURE"

\* Snapshot::createSnapshot(name); `info` holds the <<space, host>> of every
\* checkpoint directory returned.
CreateSnapshot(s, spaces, kv, fails) ==
    IF kv # "SUCCEEDED" THEN [ret |-> SpacesHostsError(kv), sent |-> <<>>, info |-> {}]
    ELSE LET sent == SnapshotLoop(SortPairs(GetSpacesHosts(s, spaces)), fails)
         IN  [ret  |-> SnapshotRet(sent), sent |-> sent,
              info |-> {<<sent[i].space, sent[i].host>> : i \in {j \in 1..Len(sent) : sent[j].ok}}]

(***************************************************************************)
(* CreateBackupProcessor::process                                          *)
(***************************************************************************)
NewBackup == [pc |-> "start", code |-> "NONE", fin |-> 0, req |-> {}, hosts |-> {},
              spaces |-> {}, name |-> 0, data |-> <<>>, ret |-> "NONE", info |-> {},
              trace |-> <<>>, backupInfo |-> <<>>]

\* handleErrorCode(code); onFinished(); return;  (the holders die with the frame)
Finish(b, code) == [b EXCEPT !.code = code, !.fin = @ + 1, !.pc = "done"]

ReleaseAll(t) == Release(Release(Release(locks, "snapshot", t), "space", t), "id", t)

BackupRequests == {{}, {"s1"}}

\* The leader check.
BackupCheckLeader(p) ==
    /\ bk[p].pc = "start"
    /\ \E isLeader \in BOOLEAN :
         bk' = [bk EXCEPT ![p] = IF isLeader THEN [@ EXCEPT !.pc = "rebuilding"]
                                 ELSE Finish(@, "E_LEADER_CHANGED")]
    /\ UNCHANGED <<kvVars, locks, clock, idVars, snapSpaces, cpDone, stamps, dropVars, restVars>>

\* The loop of isIndexRebuilding() over a successful scan of the rebuild statuses.
IsIndexRebuildingNever(s) == FALSE
IsIndexRebuilding(s) == \E k \in KvPrefix(s, "rebuild") : s[k] = "RUNNING"

\* isIndexRebuilding(): the holder of the space lock as reader, the scan, and the
\* return, which ends the holder's scope.
BackupIsIndexRebuilding(p) ==
    /\ bk[p].pc = "rebuilding"
    /\ CanRead("space")
    /\ \E kv \in KvReadCodes :
         LET b == IF kv # "SUCCEEDED" THEN Finish(bk[p], MetaCommonTo(kv))
                  ELSE IF IsIndexRebuilding(store)
                       THEN Finish(bk[p], "E_BACKUP_BUILDING_INDEX")
                       ELSE [bk[p] EXCEPT !.pc = "lock"]
         IN  /\ bk' = [bk EXCEPT ![p] = b]
             /\ locks' = IF b.pc = "done" THEN ReleaseAll(p)
                         ELSE ScopeExit(ReadHolder("space", p), "space", p)
    /\ UNCHANGED <<kvVars, clock, idVars, snapSpaces, cpDone, stamps, dropVars, restVars>>

\* The same step without the holder: the processor goes on with the lock untaken.
BackupNoSnapshotLock(p) ==
    /\ bk[p].pc = "lock"
    /\ bk' = [bk EXCEPT ![p].pc = "hosts"]
    /\ UNCHANGED <<kvVars, locks, clock, idVars, snapSpaces, cpDone, stamps, dropVars, restVars>>

\* folly::SharedMutex::WriteHolder wHolder(LockUtils::snapshotLock());
BackupLockSnapshot(p) ==
    /\ bk[p].pc = "lock"
    /\ CanWrite("snapshot")
    /\ locks' = WriteHolder("snapshot", p)
    /\ bk' = [bk EXCEPT ![p].pc = "hosts"]
    /\ UNCHANGED <<kvVars, clock, idVars, snapSpaces, cpDone, stamps, dropVars, restVars>>

\* ActiveHostsMan::getActiveHosts(kvstore_), and the empty check.
BackupGetActiveHosts(p) ==
    /\ bk[p].pc = "hosts"
    /\ \E kv \in KvReadCodes :
         LET hosts == GetActiveHosts(store, clock)
             b == IF kv # "SUCCEEDED" THEN Finish(bk[p], MetaCommonTo(kv))
                  ELSE IF hosts = {} THEN Finish(bk[p], "E_NO_HOSTS")
                  ELSE [bk[p] EXCEPT !.hosts = hosts, !.pc = "spaces"]
         IN  /\ bk' = [bk EXCEPT ![p] = b]
             /\ locks' = IF b.pc = "done" THEN ReleaseAll(p) ELSE locks
    /\ UNCHANGED <<kvVars, clock, idVars, snapSpaces, cpDone, stamps, dropVars, restVars>>

\* spaceNameToId(backupSpaces) over a successful read; backupSpaces = req.get_spaces()
\* is the request's input, {} standing for nullptr (every space).
SpaceNameToId(s, req) ==
    IF req # {} THEN {s[IndexSpaceKey(n)] : n \in req}
    ELSE {k[2] : k \in KvPrefix(s, "space")}

BackupSpaceNameToId(p) ==
    /\ bk[p].pc = "spaces"
    /\ CanRead("space")
    /\ \E kv \in KvReadCodes, req \in BackupRequests :
         LET missing == \E n \in req : ~KvHas(store, IndexSpaceKey(n))
             b == IF kv # "SUCCEEDED" THEN Finish(bk[p], MetaCommonTo(kv))
                  ELSE IF missing THEN Finish(bk[p], MetaCommonTo("ERR_PARTIAL_RESULT"))
                  ELSE IF SpaceNameToId(store, req) = {}
                       THEN Finish(bk[p], "E_BACKUP_SPACE_NOT_FOUND")
                  ELSE [bk[p] EXCEPT !.req = req, !.spaces = SpaceNameToId(store, req),
                                     !.pc = "prepare"]
         IN  /\ bk' = [bk EXCEPT ![p] = b]
             /\ locks' = IF b.pc = "done" THEN ReleaseAll(p) ELSE locks
    /\ UNCHANGED <<kvVars, clock, idVars, snapSpaces, cpDone, stamps, dropVars, restVars>>

\* data.emplace_back(snapshotKey(backupName), snapshotVal(INVALID, hosts)) puts the
\* entry in the local vector `data`; nothing is written to the store here.
InvalidData(name, hosts) == <<<<SnapshotKey(name), SnapshotVal("INVALID", hosts)>>>>

\* The name, the first entry of `data`, and Snapshot::setSpaces(spaces).
BackupPrepare(p) ==
    /\ bk[p].pc = "prepare"
    /\ stamps' = GenTimestampStr(stamps)
    /\ bk' = [bk EXCEPT ![p].name = BackupName(stamps'),
                        ![p].data = InvalidData(BackupName(stamps'), bk[p].hosts),
                        ![p].pc = "blockOn"]
    /\ snapSpaces' = bk[p].spaces
    /\ UNCHANGED <<kvVars, locks, clock, idVars, cpDone, dropVars, restVars>>

\* step 1: blockingWrites(BLOCK_ON); on failure handleErrorCode(ret).
BackupBlockOn(p) ==
    /\ bk[p].pc = "blockOn"
    /\ CanRead("space")
    /\ \E kv \in KvReadCodes, fails \in SUBSET GetSpacesHosts(store, snapSpaces) :
         LET r == BlockingWrites("BLOCK_ON", store, snapSpaces, kv, fails)
         IN  bk' = [bk EXCEPT ![p].trace = @ \o r.sent,
                              ![p].ret = r.ret,
                              ![p].code = IF r.ret # "SUCCEEDED" THEN r.ret ELSE @,
                              ![p].pc = IF r.ret # "SUCCEEDED" THEN "unblock" ELSE "snapshot"]
    /\ UNCHANGED <<kvVars, locks, clock, idVars, snapSpaces, cpDone, stamps, dropVars, restVars>>

\* The failure paths of steps 1 and 3: blockingWrites(BLOCK_OFF), whose result is only
\* logged, then onFinished().
BackupUnblockAndFinish(p) ==
    /\ bk[p].pc = "unblock"
    /\ CanRead("space")
    /\ \E kv \in KvReadCodes, fails \in SUBSET GetSpacesHosts(store, snapSpaces) :
         LET r == BlockingWrites("BLOCK_OFF", store, snapSpaces, kv, fails)
         IN  bk' = [bk EXCEPT ![p].trace = @ \o r.sent,
                              ![p].ret = r.ret,
                              ![p].fin = @ + 1,
                              ![p].pc = "done"]
    /\ locks' = ReleaseAll(p)
    /\ UNCHANGED <<kvVars, clock, idVars, snapSpaces, cpDone, stamps, dropVars, restVars>>

\* step 3: createSnapshot(backupName); on failure handleErrorCode(error).
BackupCreateSnapshot(p) ==
    /\ bk[p].pc = "snapshot"
    /\ CanRead("space")
    /\ \E kv \in KvReadCodes, fails \in SUBSET GetSpacesHosts(store, snapSpaces) :
         LET r == CreateSnapshot(store, snapSpaces, kv, fails)
         IN  /\ bk' = [bk EXCEPT ![p].trace = @ \o r.sent,
                                 ![p].info = r.info,
                                 ![p].code = IF r.ret # "SUCCEEDED" THEN r.ret ELSE @,
                                 ![p].pc = IF r.ret # "SUCCEEDED" THEN "unblock" ELSE "export"]
             /\ cpDone' = cpDone \cup {<<t[1], t[2], bk[p].name>> : t \in r.info}
    /\ UNCHANGED <<kvVars, locks, clock, idVars, snapSpaces, stamps, dropVars, restVars>>

Event(kind, ok) == [kind |-> kind, space |-> 0, host |-> 0, ok |-> ok]

\* step 4: MetaServiceUtils::backup(...); without a value, E_BACKUP_FAILURE and return.
BackupExportMeta(p) ==
    /\ bk[p].pc = "export"
    /\ \E hasValue \in BOOLEAN :
         LET b == [bk[p] EXCEPT !.trace = Append(@, Event("EXPORT", hasValue))]
         IN  /\ bk' = [bk EXCEPT ![p] = IF hasValue THEN [b EXCEPT !.pc = "blockOff"]
                                        ELSE Finish(b, "E_BACKUP_FAILURE")]
             /\ locks' = IF hasValue THEN locks ELSE ReleaseAll(p)
    /\ UNCHANGED <<kvVars, clock, idVars, snapSpaces, cpDone, stamps, dropVars, restVars>>

\* step 5: blockingWrites(BLOCK_OFF); on failure handleErrorCode(ret) and return.
BackupBlockOff(p) ==
    /\ bk[p].pc = "blockOff"
    /\ CanRead("space")
    /\ \E kv \in KvReadCodes, fails \in SUBSET GetSpacesHosts(store, snapSpaces) :
         LET r == BlockingWrites("BLOCK_OFF", store, snapSpaces, kv, fails)
             b == [bk[p] EXCEPT !.trace = @ \o r.sent, !.ret = r.ret]
         IN  /\ bk' = [bk EXCEPT ![p] = IF r.ret = "SUCCEEDED" THEN [b EXCEPT !.pc = "commit"]
                                        ELSE Finish(b, r.ret)]
             /\ locks' = IF r.ret = "SUCCEEDED" THEN locks ELSE ReleaseAll(p)
    /\ UNCHANGED <<kvVars, clock, idVars, snapSpaces, cpDone, stamps, dropVars, restVars>>

\* step 6: data.emplace_back(snapshotKey, snapshotVal(VALID, hosts)).
CommitDataValidFirst(data, name, hosts) ==
    <<<<SnapshotKey(name), SnapshotVal("VALID", hosts)>>>> \o data
CommitData(data, name, hosts) ==
    Append(data, <<SnapshotKey(name), SnapshotVal("VALID", hosts)>>)

\* doSyncPut(std::move(data)): the batch is handed to the engine.
BackupCommit(p) ==
    /\ bk[p].pc = "commit"
    /\ bk' = [bk EXCEPT ![p].data = CommitData(@, bk[p].name, bk[p].hosts),
                        ![p].pc = "commitWait"]
    /\ inflight' = [inflight EXCEPT ![p] =
                      Append(@, [op |-> "put",
                                 kvs |-> CommitData(bk[p].data, bk[p].name, bk[p].hosts)])]
    /\ UNCHANGED <<store, snapLog, baton, locks, clock, idVars, snapSpaces, cpDone, stamps, dropVars, restVars>>

BackupEngine(p) ==
    /\ EngineApply(p)
    /\ UNCHANGED <<locks, clock, idVars, bkVars, dropVars, restVars>>

\* doSyncPut returns MetaCommon::to(ret) after baton.wait().
BackupCommitted(p) ==
    /\ bk[p].pc = "commitWait"
    /\ baton[p] # <<>>
    /\ baton' = [baton EXCEPT ![p] = Tail(@)]
    /\ LET ok == Head(baton[p]) = "SUCCEEDED"
           b  == [bk[p] EXCEPT !.trace = Append(@, Event("COMMIT", ok))]
       IN  /\ bk' = [bk EXCEPT ![p] = IF ok THEN [b EXCEPT !.pc = "manifest"]
                                      ELSE Finish(b, MetaCommonTo(Head(baton[p])))]
           /\ locks' = IF ok THEN locks ELSE ReleaseAll(p)
    /\ UNCHANGED <<store, snapLog, inflight, clock, idVars, snapSpaces, cpDone, stamps, dropVars, restVars>>

\* snapshotInfo.find(id): the hosts of the checkpoint entries createSnapshot returned
\* for the space; the map has an entry for the space iff the set is not empty.
SnapshotInfoFind(info, id) == {t[2] : t \in {x \in info : x[1] = id}}

SnapshotInfoHas(info, id) == SnapshotInfoFind(info, id) # {}

\* backup_info of the manifest: the cp_dirs of every chosen space.  For a space
\* without an entry `it` is snapshotInfo.end() and it->second is not a value of
\* the map.
BackupInfo(info, spaces) ==
    [id \in spaces |-> [defined |-> SnapshotInfoHas(info, id),
                        cp_dirs |-> SnapshotInfoFind(info, id)]]

\* The manifest loop: for every chosen space doGet(spaceKey(id)), then
\* snapshotInfo.find(id) under DCHECK(it != snapshotInfo.end()), then SUCCEEDED.
\* The spaces are visited in the order of an unordered_set.  When the find of some
\* space returns end(), the DCHECK ends the process in a build that keeps it, and
\* without it the dereference of end() is undefined: the loop goes on with a
\* value that is not of the map, or the process ends.
BackupManifest(p) ==
    /\ bk[p].pc = "manifest"
    /\ \E kv \in KvReadCodes, aborts \in BOOLEAN :
         LET readCode == IF kv # "SUCCEEDED" THEN MetaCommonTo(kv)
                         ELSE IF \E id \in bk[p].spaces : ~KvHas(store, SpaceKey(id))
                              THEN MetaCommonTo("ERR_KEY_NOT_FOUND")
                              ELSE "SUCCEEDED"
             found == \A id \in bk[p].spaces : SnapshotInfoHas(bk[p].info, id)
         IN  IF ~found /\ aborts
             THEN /\ bk' = [bk EXCEPT ![p].pc = "aborted"]
                  /\ UNCHANGED locks
             ELSE /\ bk' = [bk EXCEPT ![p] =
                             IF readCode # "SUCCEEDED" THEN Finish(@, readCode)
                             ELSE Finish([@ EXCEPT !.backupInfo =
                                                      BackupInfo(bk[p].info, bk[p].spaces)],
                                         "SUCCEEDED")]
                  /\ locks' = ReleaseAll(p)
    /\ UNCHANGED <<kvVars, clock, idVars, snapSpaces, cpDone, stamps, dropVars, restVars>>

\* The one-shot processor object is destroyed after its completion hook has fired.
BackupRetire(p) ==
    /\ bk[p].pc = "done"
    /\ bk' = [bk EXCEPT ![p] = [NewBackup EXCEPT !.pc = "gone"]]
    /\ UNCHANGED <<kvVars, locks, clock, idVars, snapSpaces, cpDone, stamps, dropVars, restVars>>

(***************************************************************************)
(* The meta store the backup model starts from: the spaces with their      *)
(* index keys, one of the part tables, the host registry and a rebuild     *)
(* status.                                                                 *)
(***************************************************************************)
PartTables ==
    { <<<<PartKey(1, 1), {1, 2}>>, <<PartKey(1, 2), {2}>>, <<PartKey(2, 1), {2}>>>>,
      <<<<PartKey(1, 1), {1}>>>> }

HostTables ==
    { <<<<HostKey(1), 60000>>, <<HostKey(2), 60000>>, <<HostKey(3), 60000>>>>,
      <<<<HostKey(1), 0>>, <<HostKey(2), 0>>, <<HostKey(3), 0>>>> }

HostRecords(hb) ==
    [i \in 1..Len(hb) |-> <<hb[i][1], [role |-> "STORAGE", lastHB |-> hb[i][2]]>>]

SpaceRecords ==
    <<<<SpaceKey(1), "s1">>, <<IndexSpaceKey("s1"), 1>>,
      <<SpaceKey(2), "s2">>, <<IndexSpaceKey("s2"), 2>>>>

RebuildTables ==
    { <<>>,
      <<<<RebuildIndexStatusKey(1, 1), "FINISHED">>>>,
      <<<<RebuildIndexStatusKey(1, 1), "FINISHED">>, <<RebuildIndexStatusKey(1, 2), "RUNNING">>>> }

\* The store holds both spaces, or none; without spaces it holds no part table.
SpaceTables == {SpaceRecords, <<>>}

InitBackup ==
    /\ \E spaces \in SpaceTables, parts \in PartTables, hb \in HostTables,
          rb \in RebuildTables :
         store = KvMultiPut(EmptyStore,
                            spaces \o (IF spaces = <<>> THEN <<>> ELSE parts)
                                \o HostRecords(hb) \o rb)
    /\ snapLog = <<>>
    /\ locks = [l \in LockNames |-> FreeLock]
    /\ inflight = [t \in BackupProcs |-> NoWrite]
    /\ baton = [t \in BackupProcs |-> <<>>]
    /\ clock = 60000
    /\ idPc = <<>> /\ idLocal = <<>> /\ idRet = <<>> /\ initId = 0
    /\ bk = [p \in BackupProcs |-> NewBackup]
    /\ snapSpaces = {}
    /\ cpDone = {}
    /\ stamps = 0
    /\ dp = <<>>
    /\ lh = <<>> /\ op = <<>> /\ call = <<>>

NextBackup ==
    \E p \in BackupProcs :
        \/ BackupCheckLeader(p)
        \/ BackupIsIndexRebuilding(p)
        \/ BackupLockSnapshot(p)
        \/ BackupGetActiveHosts(p)
        \/ BackupSpaceNameToId(p)
        \/ BackupPrepare(p)
        \/ BackupBlockOn(p)
        \/ BackupUnblockAndFinish(p)
        \/ BackupCreateSnapshot(p)
        \/ BackupExportMeta(p)
        \/ BackupBlockOff(p)
        \/ BackupCommit(p)
        \/ BackupEngine(p)
        \/ BackupCommitted(p)
        \/ BackupManifest(p)
        \/ BackupRetire(p)

SpecBackup == InitBackup /\ [][NextBackup]_vars

(***************************************************************************)
(* DropSpaceProcessor::process                                             *)
(***************************************************************************)
NumDrops == 2          \* DropSpace requests

DropProcs == {<<"drop", i>> : i \in 1..NumDrops}

RoleKey(id, user)          == <<"role", id, user>>
ListenerKey(id, type, part) == <<"listener", id, type, part>>
StatisKey(id)              == <<"statis", id>>
kLastUpdateTimeKey         == <<"lastUpdateTime">>

\* doGet: kvstore_->get, and MetaCommon::to of its code when it is not SUCCEEDED.
DoGet(s, key, kv) ==
    IF kv # "SUCCEEDED" THEN [ok |-> FALSE, err |-> MetaCommonTo(kv), val |-> 0]
    ELSE IF ~KvHas(s, key)
         THEN [ok |-> FALSE, err |-> MetaCommonTo("ERR_KEY_NOT_FOUND"), val |-> 0]
         ELSE [ok |-> TRUE, err |-> "SUCCEEDED", val |-> s[key]]

GetSpaceId(s, name, kv) == DoGet(s, IndexSpaceKey(name), kv)

NewDrop == [pc |-> "start", code |-> "NONE", fin |-> 0, name |-> "", ifExists |-> FALSE,
            spaceId |-> 0, deleteKeys |-> {}, wrote |-> "NONE", bump |-> "NONE"]

DropRequests == SpaceNames \cup {"s3"}

\* folly::SharedMutex::ReadHolder rHolder(LockUtils::snapshotLock());
DropLockSnapshot(t) ==
    /\ dp[t].pc = "start"
    /\ CanRead("snapshot")
    /\ locks' = ReadHolder("snapshot", t)
    /\ dp' = [dp EXCEPT ![t].pc = "lockSpace"]
    /\ UNCHANGED <<kvVars, clock, idVars, bkVars, restVars>>

\* folly::SharedMutex::WriteHolder wHolder(LockUtils::spaceLock());
DropLockSpace(t) ==
    /\ dp[t].pc = "lockSpace"
    /\ CanWrite("space")
    /\ locks' = WriteHolder("space", t)
    /\ dp' = [dp EXCEPT ![t].pc = "getSpaceId"]
    /\ UNCHANGED <<kvVars, clock, idVars, bkVars, restVars>>

\* The code reported when getSpaceId fails: E_NOT_FOUND becomes SUCCEEDED under
\* if_exists, every other error is reported as it is.
RetCodeIgnoringIfExists(err, ifExists) == err
RetCodeOfMissing(err, ifExists) ==
    IF err = "E_NOT_FOUND" /\ ifExists THEN "SUCCEEDED" ELSE err

\* getSpaceId(spaceName) and the handling of its error.
DropGetSpaceId(t) ==
    /\ dp[t].pc = "getSpaceId"
    /\ \E name \in DropRequests, ifExists \in BOOLEAN, kv \in KvReadCodes :
         LET spaceRet == GetSpaceId(store, name, kv)
             d == [dp[t] EXCEPT !.name = name, !.ifExists = ifExists]
         IN  IF ~spaceRet.ok
             THEN /\ dp' = [dp EXCEPT ![t] =
                              Finish(d, RetCodeOfMissing(spaceRet.err, ifExists))]
                  /\ locks' = ReleaseAll(t)
             ELSE /\ dp' = [dp EXCEPT ![t] = [d EXCEPT !.spaceId = spaceRet.val,
                                                       !.pc = "collect"]]
                  /\ locks' = locks
    /\ UNCHANGED <<kvVars, clock, idVars, bkVars, restVars>>

\* The scans without the space id in their prefixes.
DropDeleteKeysOfAllSpaces(s, name, id) ==
    KvPrefix(s, "part") \cup {IndexSpaceKey(name), SpaceKey(id)} \cup KvPrefix(s, "role")
        \cup {StatisKey(id)}

DropDeleteKeysNoSpaceKey(s, name, id) ==
    KvPrefixOf(s, "part", id) \cup {IndexSpaceKey(name)} \cup KvPrefixOf(s, "role", id)
        \cup {StatisKey(id)}

\* deleteKeys as the three scans fill it.  The third scan iterates rolePrefix, not
\* lstPrefix, so it collects the role keys a second time; the vector is a set here,
\* removing a key twice is removing it once.
DropDeleteKeys(s, name, id) ==
    LET prefix     == KvPrefixOf(s, "part", id)
        rolePrefix == KvPrefixOf(s, "role", id)
        lstPrefix  == KvPrefixOf(s, "listener", id)
        lstRet     == rolePrefix
    IN  prefix \cup {IndexSpaceKey(name), SpaceKey(id)} \cup rolePrefix \cup lstRet
            \cup {StatisKey(id)}

\* The three doPrefix scans, each of which may fail, then
\* doSyncMultiRemoveAndUpdate(deleteKeys) hands the batch to the engine.
DropCollectKeys(t) ==
    /\ dp[t].pc = "collect"
    /\ \E iterRet \in KvReadCodes, roleRet \in KvReadCodes, lstRet \in KvReadCodes :
         LET retCode == IF iterRet # "SUCCEEDED" THEN iterRet
                        ELSE IF roleRet # "SUCCEEDED" THEN roleRet ELSE lstRet
             keys == DropDeleteKeys(store, dp[t].name, dp[t].spaceId)
         IN  IF retCode # "SUCCEEDED"
             THEN /\ dp' = [dp EXCEPT ![t] = Finish(@, MetaCommonTo(retCode))]
                  /\ locks' = ReleaseAll(t)
                  /\ inflight' = inflight
             ELSE /\ dp' = [dp EXCEPT ![t].deleteKeys = keys, ![t].pc = "removeWait"]
                  /\ inflight' = [inflight EXCEPT ![t] =
                                    Append(@, [op |-> "remove", keys |-> keys])]
                  /\ locks' = locks
    /\ UNCHANGED <<store, snapLog, baton, clock, idVars, bkVars, restVars>>

DropEngine(t) ==
    /\ EngineApply(t)
    /\ UNCHANGED <<locks, clock, idVars, bkVars, dropVars, restVars>>

\* LastUpdateTimeMan::update(kvstore_, now): writes lastUpdateTime, returns the code.
LastUpdateTimeUpdate(s, now, kv) ==
    IF kv = "SUCCEEDED" THEN KvPutOne(s, kLastUpdateTimeKey, now) ELSE s

\* if (ret != kvstore::ResultCode::SUCCEEDED) { handleErrorCode; onFinished; return; }
DataWriteOkAlways(ret) == TRUE
DataWriteOk(ret) == ret = "SUCCEEDED"

\* doSyncMultiRemoveAndUpdate after baton.wait(): the error of the remove, or the
\* update of lastUpdateTime and its code; then onFinished().  `wrote` and `bump`
\* keep the codes of the remove and of the update.
DropRemoved(t) ==
    /\ dp[t].pc = "removeWait"
    /\ baton[t] # <<>>
    /\ baton' = [baton EXCEPT ![t] = Tail(@)]
    /\ IF ~DataWriteOk(Head(baton[t]))
       THEN /\ dp' = [dp EXCEPT ![t] = Finish([@ EXCEPT !.wrote = Head(baton[t])],
                                              MetaCommonTo(Head(baton[t])))]
            /\ store' = store
       ELSE \E kv \in KvReadCodes :
            /\ store' = LastUpdateTimeUpdate(store, clock, kv)
            /\ dp' = [dp EXCEPT ![t] = Finish([@ EXCEPT !.wrote = Head(baton[t]), !.bump = kv],
                                              MetaCommonTo(kv))]
    /\ locks' = ReleaseAll(t)
    /\ UNCHANGED <<snapLog, inflight, clock, idVars, bkVars, restVars>>

(***************************************************************************)
(* The meta store the drop-space model starts from: both spaces with their *)
(* index keys and the first part table, statis data for space 1 only, with *)
(* or without role and listener records.                                   *)
(***************************************************************************)
DropPartRecords ==
    <<<<PartKey(1, 1), {1, 2}>>, <<PartKey(1, 2), {2}>>, <<PartKey(2, 1), {2}>>>>

RoleTables ==
    { <<>>, <<<<RoleKey(1, "u1"), "ADMIN">>, <<RoleKey(2, "u1"), "GUEST">>>> }

ListenerTables ==
    { <<>>, <<<<ListenerKey(1, "ES", 1), 3>>, <<ListenerKey(2, "ES", 1), 3>>>> }

StatisRecords == <<<<StatisKey(1), "DONE">>>>

InitDrop ==
    /\ \E roles \in RoleTables, lst \in ListenerTables :
         store = KvMultiPut(EmptyStore,
                            SpaceRecords \o DropPartRecords \o roles \o lst \o StatisRecords)
    /\ snapLog = <<>>
    /\ locks = [l \in LockNames |-> FreeLock]
    /\ inflight = [t \in DropProcs |-> NoWrite]
    /\ baton = [t \in DropProcs |-> <<>>]
    /\ clock = 60000
    /\ idPc = <<>> /\ idLocal = <<>> /\ idRet = <<>> /\ initId = 0
    /\ bk = <<>>
    /\ snapSpaces = {}
    /\ cpDone = {}
    /\ stamps = 0
    /\ dp = [t \in DropProcs |-> NewDrop]
    /\ lh = <<>> /\ op = <<>> /\ call = <<>>

NextDrop ==
    \E t \in DropProcs :
        \/ DropLockSnapshot(t)
        \/ DropLockSpace(t)
        \/ DropGetSpaceId(t)
        \/ DropCollectKeys(t)
        \/ DropEngine(t)
        \/ DropRemoved(t)

SpecDrop == InitDrop /\ [][NextDrop]_vars

(***************************************************************************)
(* The composite operations of BaseProcessor, each called by a processor   *)
(* thread of its own: doPut, doRemove, doMultiRemove, doRemoveRange,       *)
(* doSyncPut, doSyncPutAndUpdate, doSyncMultiRemoveAndUpdate.              *)
(***************************************************************************)
NumOps   == 2          \* threads calling a composite operation
MaxClock == 2          \* milliseconds the wall clock advances

OpThreads == {<<"op", i>> : i \in 1..NumOps}

CallbackFns == {"doPut", "doRemove", "doMultiRemove", "doRemoveRange"}
UpdateFns   == {"doSyncPutAndUpdate", "doSyncMultiRemoveAndUpdate"}
OpFns       == CallbackFns \cup {"doSyncPut"} \cup UpdateFns

DataKey(i) == <<"k", i>>

\* The write each operation hands to the engine.
OpWrite(fn) ==
    CASE fn = "doPut"              -> [op |-> "put", kvs |-> <<<<DataKey(1), "v">>>>]
      [] fn = "doSyncPut"          -> [op |-> "put", kvs |-> <<<<DataKey(2), "v">>>>]
      [] fn = "doSyncPutAndUpdate" -> [op |-> "put", kvs |-> <<<<DataKey(3), "v">>>>]
      [] fn = "doRemove"           -> [op |-> "remove", keys |-> {DataKey(1)}]
      [] fn = "doMultiRemove"      -> [op |-> "remove", keys |-> {DataKey(1), DataKey(2)}]
      [] fn = "doSyncMultiRemoveAndUpdate"
                                   -> [op |-> "remove", keys |-> {DataKey(2), DataKey(3)}]
      [] fn = "doRemoveRange"      -> [op |-> "removeRange", start |-> 1, end |-> 3]

\* The stored lastUpdateTime, 0 when the key is absent.
LastUpdateTime(s) == IF KvHas(s, kLastUpdateTimeKey) THEN s[kLastUpdateTimeKey] ELSE 0

NewOp == [pc |-> "start", fn |-> "NONE", code |-> "NONE", fin |-> 0, ret |-> "NONE",
          now |-> 0, before |-> 0, after |-> 0, wrote |-> "NONE", bump |-> "NONE"]

\* kvstore_->asyncMultiPut / asyncRemove / asyncMultiRemove / asyncRemoveRange with the
\* callback that posts the baton: one write is handed to the engine.
AsyncWriteTwice(q, w) == Append(Append(q, w), w)
AsyncWrite(q, w) == Append(q, w)

\* The call: the operation hands its write to the engine; baton.wait() follows.
\* `before` is the lastUpdateTime a reader sees when the call starts.
OpCall(t) ==
    /\ op[t].pc = "start"
    /\ \E fn \in OpFns :
         /\ op' = [op EXCEPT ![t].fn = fn, ![t].pc = "wait",
                             ![t].before = LastUpdateTime(store)]
         /\ inflight' = [inflight EXCEPT ![t] = AsyncWrite(@, OpWrite(fn))]
    /\ UNCHANGED <<store, snapLog, baton, locks, clock, idVars, bkVars, dropVars, lh, call>>

\* The engine's callback: doPut, doRemove, doMultiRemove and doRemoveRange call
\* handleErrorCode inside it, the doSync* operations store the code in `ret`.
OpEngineNoHandle(t) ==
    /\ EngineApply(t)
    /\ op' = [op EXCEPT ![t].wrote = baton'[t][Len(baton'[t])]]
    /\ UNCHANGED <<locks, clock, idVars, bkVars, dropVars, lh, call>>

OpEngine(t) ==
    /\ EngineApply(t)
    /\ op' = [op EXCEPT ![t].wrote = baton'[t][Len(baton'[t])],
                        ![t].code = IF op[t].fn \in CallbackFns
                                    THEN MetaCommonTo(baton'[t][Len(baton'[t])]) ELSE @]
    /\ UNCHANGED <<locks, clock, idVars, bkVars, dropVars, lh, call>>

\* fastNowInMilliSec(), the argument of LastUpdateTimeMan::update.
OpNowZero(now) == 0
OpNow(now) == now

\* onFinished() of an operation thread; `after` is the lastUpdateTime a reader
\* sees when the operation completes.
OpFinish(o, s) == [o EXCEPT !.fin = @ + 1, !.pc = "done", !.after = LastUpdateTime(s)]

\* baton.wait() has returned.
OpWaited(t) ==
    /\ op[t].pc = "wait"
    /\ baton[t] # <<>>
    /\ baton' = [baton EXCEPT ![t] = Tail(@)]
    /\ LET ret == Head(baton[t])
       IN  op' = [op EXCEPT ![t] =
                 IF op[t].fn \in CallbackFns THEN OpFinish(@, store)
                 ELSE IF op[t].fn = "doSyncPut"
                      THEN [@ EXCEPT !.ret = MetaCommonTo(ret), !.pc = "done",
                                     !.after = LastUpdateTime(store)]
                 ELSE IF ~DataWriteOk(ret)
                      THEN OpFinish([@ EXCEPT !.code = MetaCommonTo(ret)], store)
                      ELSE [@ EXCEPT !.now = OpNow(clock), !.pc = "update"]]
    /\ UNCHANGED <<store, snapLog, inflight, locks, clock, idVars, bkVars, dropVars, lh, call>>

\* LastUpdateTimeMan::update(kvstore_, now); handleErrorCode(retCode); onFinished().
OpUpdate(t) ==
    /\ op[t].pc = "update"
    /\ \E kv \in KvReadCodes :
         /\ store' = LastUpdateTimeUpdate(store, op[t].now, kv)
         /\ op' = [op EXCEPT ![t] =
                     OpFinish([@ EXCEPT !.code = MetaCommonTo(kv), !.bump = kv],
                              LastUpdateTimeUpdate(store, op[t].now, kv))]
    /\ UNCHANGED <<snapLog, inflight, baton, locks, clock, idVars, bkVars, dropVars, lh, call>>

\* The wall clock advances.
Tick ==
    /\ clock < MaxClock
    /\ clock' = clock + 1
    /\ UNCHANGED <<kvVars, locks, idVars, bkVars, dropVars, restVars>>

\* The stores the operations start from: some data keys, and a lastUpdateTime no
\* later than the clock.
OpStores ==
    { <<>>,
      <<<<DataKey(1), "v">>, <<DataKey(2), "v">>, <<DataKey(3), "v">>,
        <<kLastUpdateTimeKey, 1>>>> }

InitOps ==
    /\ \E recs \in OpStores : store = KvMultiPut(EmptyStore, recs)
    /\ snapLog = <<>>
    /\ locks = [l \in LockNames |-> FreeLock]
    /\ inflight = [t \in OpThreads |-> NoWrite]
    /\ baton = [t \in OpThreads |-> <<>>]
    /\ clock = 1
    /\ idPc = <<>> /\ idLocal = <<>> /\ idRet = <<>> /\ initId = 0
    /\ bk = <<>>
    /\ snapSpaces = {}
    /\ cpDone = {}
    /\ stamps = 0
    /\ dp = <<>>
    /\ lh = <<>>
    /\ op = [t \in OpThreads |-> NewOp]
    /\ call = <<>>

NextOps ==
    \/ Tick
    \/ \E t \in OpThreads :
        \/ OpCall(t)
        \/ OpEngine(t)
        \/ OpWaited(t)
        \/ OpUpdate(t)

SpecOps == InitOps /\ [][NextOps]_vars

(***************************************************************************)
(* ListHostsProcessor::process                                             *)
(***************************************************************************)
RemovedThresholdSec == 24 * 60 * 60

MetaPeers == {11}      \* the peers of the meta partition, as server addresses

LeaderKey(space, part) == <<"leader", space, part>>
LeaderVal(host, code)  == [host |-> host, code |-> code]
HostInfo(role, lastHB) == [role |-> role, lastHB |-> lastHB]

ListHostTypes == {"ALLOC", "GRAPH", "META", "STORAGE"}

ToHostRole(type) == IF type \in {"GRAPH", "META", "STORAGE"} THEN type ELSE "UNKNOWN"

\* The code the processor's own scans return on failure.
ListScanError(kv) ==
    IF MetaCommonTo(kv) # "E_LEADER_CHANGED" THEN "E_NO_HOSTS" ELSE MetaCommonTo(kv)

HostItem(role, status) ==
    [role |-> role, status |-> status, leader_parts |-> {}, all_parts |-> {}]

\* allHostsWithStatus(role) over a successful scan: the records of the role split by
\* the removal threshold, the status of the kept ones by the heartbeat threshold.
HostsOfRole(s, role) == {k \in KvPrefix(s, "host") : s[k].role = role}

KeptHosts(s, role, now) ==
    {k \in HostsOfRole(s, role) : now - s[k].lastHB < RemovedThresholdSec * 1000}

RemoveHostsKey(s, role, now) == HostsOfRole(s, role) \ KeptHosts(s, role, now)

HostStatus(s, k, now) ==
    IF now - s[k].lastHB < ActiveThresholdMs THEN "ONLINE" ELSE "OFFLINE"

AllHostsWithStatus(s, role, now) ==
    [h \in {k[2] : k \in KeptHosts(s, role, now)} |->
        HostItem(role, HostStatus(s, HostKey(h), now))]

\* allMetaHostsStatus over a successful kvstore_->part(): every peer ONLINE.
AllMetaHostsStatus == [h \in MetaPeers |-> HostItem("META", "ONLINE")]

\* spaceIdNameMap_[id]: operator[] inserts the empty name for an id it does not hold.
SpaceNameIn(map, id) == IF id \in DOMAIN map THEN map[id] ELSE ""

\* The loop of fillLeaders over a successful scan of the leader records.
FillLeadersOfListed(s, items, map, activeHosts) ==
    [h \in DOMAIN items |->
        [items[h] EXCEPT !.leader_parts =
            {<<SpaceNameIn(map, k[2]), k[3]>> :
                k \in {x \in KvPrefix(s, "leader") :
                          s[x].code = "SUCCEEDED" /\ s[x].host = h}}]]

FillLeaders(s, items, map, activeHosts) ==
    [h \in DOMAIN items |->
        [items[h] EXCEPT !.leader_parts =
            {<<SpaceNameIn(map, k[2]), k[3]>> :
                k \in {x \in KvPrefix(s, "leader") :
                          /\ s[x].code = "SUCCEEDED"
                          /\ s[x].host = h
                          /\ h \in activeHosts}}]]

\* The loops of fillAllParts over successful scans of the part tables of spaceIds_.
FillAllParts(s, items, map, spaceIds) ==
    [h \in DOMAIN items |->
        [items[h] EXCEPT !.all_parts =
            {<<SpaceNameIn(map, k[2]), k[3]>> :
                k \in {x \in KvPrefix(s, "part") : x[2] \in spaceIds /\ h \in s[x]}}]]

NoNames == [id \in {} |-> ""]
NoItems == [h \in {} |-> HostItem("UNKNOWN", "UNKNOWN")]

NewList == [pc |-> "start", code |-> "NONE", fin |-> 0, type |-> "NONE", spaceIds |-> {},
            spaceIdNameMap |-> NoNames, hostItems |-> NoItems, removeHostsKey |-> {},
            wrote |-> "NONE"]

\* folly::SharedMutex::ReadHolder rHolder(LockUtils::spaceLock());
ListLockSpace(t) ==
    /\ lh[t].pc = "start"
    /\ CanRead("space")
    /\ locks' = ReadHolder("space", t)
    /\ lh' = [lh EXCEPT ![t].pc = "spaces"]
    /\ UNCHANGED <<kvVars, clock, idVars, bkVars, dropVars, op, call>>

\* getSpaceIdNameMap(), and req.get_type().
ListGetSpaceIdNameMap(t) ==
    /\ lh[t].pc = "spaces"
    /\ \E kv \in KvReadCodes, type \in ListHostTypes :
         IF kv # "SUCCEEDED"
         THEN /\ lh' = [lh EXCEPT ![t] = Finish([@ EXCEPT !.type = type], ListScanError(kv))]
              /\ locks' = ReleaseAll(t)
         ELSE /\ lh' = [lh EXCEPT ![t].type = type,
                                  ![t].spaceIds = {k[2] : k \in KvPrefix(store, "space")},
                                  ![t].spaceIdNameMap =
                                      [id \in {k[2] : k \in KvPrefix(store, "space")} |->
                                          store[SpaceKey(id)]],
                                  ![t].pc = "hosts"]
              /\ locks' = locks
    /\ UNCHANGED <<kvVars, clock, idVars, bkVars, dropVars, op, call>>

\* removeExpiredHosts(removeHostsKey): nothing for an empty vector, otherwise
\* asyncMultiRemove with a callback that only logs; the caller does not wait.
RemoveExpiredHosts(q, removeHostsKey) ==
    IF removeHostsKey = {} THEN q
    ELSE Append(q, [op |-> "remove", keys |-> removeHostsKey])

\* allHostsWithStatus(role): of STORAGE at the head of fillLeaders() for ALLOC, of
\* toHostRole(type) otherwise, where it is the last call of the locked block.
ListAllHostsWithStatus(t) ==
    /\ lh[t].pc = "hosts"
    /\ \E kv \in KvReadCodes :
         LET role == IF lh[t].type = "ALLOC" THEN "STORAGE" ELSE ToHostRole(lh[t].type)
             keys == RemoveHostsKey(store, role, clock)
             l == IF role = "META"
                  THEN IF kv # "SUCCEEDED" THEN Finish(lh[t], MetaCommonTo(kv))
                       ELSE Finish([lh[t] EXCEPT !.hostItems = AllMetaHostsStatus], "SUCCEEDED")
                  ELSE IF kv # "SUCCEEDED" THEN Finish(lh[t], ListScanError(kv))
                  ELSE LET x == [lh[t] EXCEPT
                                    !.hostItems = AllHostsWithStatus(store, role, clock),
                                    !.removeHostsKey = keys]
                       IN  IF lh[t].type = "ALLOC" THEN [x EXCEPT !.pc = "leaders"]
                           ELSE Finish(x, "SUCCEEDED")
         IN  /\ lh' = [lh EXCEPT ![t] = l]
             /\ inflight' = IF role # "META" /\ kv = "SUCCEEDED"
                            THEN [inflight EXCEPT ![t] = RemoveExpiredHosts(@, keys)]
                            ELSE inflight
             /\ locks' = IF l.pc = "done" THEN ReleaseAll(t) ELSE locks
    /\ UNCHANGED <<store, snapLog, baton, clock, idVars, bkVars, dropVars, op, call>>

\* The rest of fillLeaders(): getActiveHosts, the scan of the leader records, the loop.
ListFillLeaders(t) ==
    /\ lh[t].pc = "leaders"
    /\ \E activeHostsRet \in KvReadCodes, iterRet \in KvReadCodes :
         LET l == IF activeHostsRet # "SUCCEEDED"
                  THEN Finish(lh[t], MetaCommonTo(activeHostsRet))
                  ELSE IF iterRet # "SUCCEEDED" THEN Finish(lh[t], ListScanError(iterRet))
                  ELSE [lh[t] EXCEPT
                           !.hostItems = FillLeaders(store, @, lh[t].spaceIdNameMap,
                                                     GetActiveHosts(store, clock)),
                           !.pc = "parts"]
         IN  /\ lh' = [lh EXCEPT ![t] = l]
             /\ locks' = IF l.pc = "done" THEN ReleaseAll(t) ELSE locks
    /\ UNCHANGED <<kvVars, clock, idVars, bkVars, dropVars, op, call>>

\* fillAllParts(): one scan for each id of spaceIds_; then the end of the block,
\* handleErrorCode(retCode) and onFinished().
ListFillAllParts(t) ==
    /\ lh[t].pc = "parts"
    /\ \E iterPartRet \in KvReadCodes :
         /\ lh[t].spaceIds = {} => iterPartRet = "SUCCEEDED"
         /\ lh' = [lh EXCEPT ![t] =
                     IF iterPartRet # "SUCCEEDED" THEN Finish(@, MetaCommonTo(iterPartRet))
                     ELSE Finish([@ EXCEPT !.hostItems =
                                      FillAllParts(store, @, lh[t].spaceIdNameMap,
                                                   lh[t].spaceIds)],
                                 "SUCCEEDED")]
    /\ locks' = ReleaseAll(t)
    /\ UNCHANGED <<kvVars, clock, idVars, bkVars, dropVars, op, call>>

\* The engine applies or fails the remove of the expired hosts; its callback logs
\* the code and posts no baton.  `wrote` keeps the code.
ListEngine(t) ==
    /\ inflight[t] # NoWrite
    /\ \E code \in {"SUCCEEDED"} \cup KvErrors :
         /\ store' = IF code = "SUCCEEDED" THEN KvMultiRemove(store, Head(inflight[t]).keys)
                     ELSE store
         /\ lh' = [lh EXCEPT ![t].wrote = code]
    /\ inflight' = [inflight EXCEPT ![t] = Tail(@)]
    /\ UNCHANGED <<snapLog, baton, locks, clock, idVars, bkVars, dropVars, op, call>>

(***************************************************************************)
(* BaseProcessor::spaceExist and BaseProcessor::listenerExist, each called *)
(* by a thread of its own.                                                 *)
(***************************************************************************)
ExistFns == {"spaceExist", "listenerExist"}

ExistLockOf(fn) == IF fn = "spaceExist" THEN "space" ELSE "listener"

\* The caller has chosen the function; its first statement constructs the holder.
ExistCall(t) ==
    /\ op[t].pc = "start"
    /\ \E fn \in ExistFns : op' = [op EXCEPT ![t].fn = fn, ![t].pc = "lock"]
    /\ UNCHANGED <<kvVars, locks, clock, idVars, bkVars, dropVars, lh, call>>

\* folly::SharedMutex::ReadHolder rHolder(LockUtils::spaceLock() / listenerLock());
ExistLock(t) ==
    /\ op[t].pc = "lock"
    /\ CanRead(ExistLockOf(op[t].fn))
    /\ locks' = ReadHolder(ExistLockOf(op[t].fn), t)
    /\ op' = [op EXCEPT ![t].pc = "read"]
    /\ UNCHANGED <<kvVars, clock, idVars, bkVars, dropVars, lh, call>>

\* doGet(spaceKey) or doPrefix(listenerPrefix), the returned code, and the end of
\* the holder's scope.
ExistReturn(t) ==
    /\ op[t].pc = "read"
    /\ \E kv \in KvReadCodes, spaceId \in SpaceIds :
         op' = [op EXCEPT ![t].pc = "done",
                          ![t].ret =
                              IF op[t].fn = "spaceExist"
                              THEN DoGet(store, SpaceKey(spaceId), kv).err
                              ELSE IF kv # "SUCCEEDED" THEN MetaCommonTo(kv)
                              ELSE IF KvPrefixOf(store, "listener", spaceId) = {}
                                   THEN "E_NOT_FOUND" ELSE "SUCCEEDED"]
    /\ locks' = Release(locks, ExistLockOf(op[t].fn), t)
    /\ UNCHANGED <<kvVars, clock, idVars, bkVars, dropVars, lh, call>>

(***************************************************************************)
(* The processors and operations running against the same store and locks. *)
(* A run starts with one of the mixes of requests below in flight.  Host 1 *)
(* is a storage host with a fresh heartbeat, host 2 a storage host silent  *)
(* for longer than the removal threshold, host 3 a graph host silent for   *)
(* longer than the heartbeat threshold.                                    *)
(***************************************************************************)
MetaBackups == {<<"backup", 1>>}
MetaDrops   == {<<"drop", 1>>}
MetaLists   == {<<"list", 1>>}
MetaOps     == {<<"op", 1>>}
MetaExists  == {<<"exist", 1>>}
MetaIds     == {<<"id", 1>>}

MetaMixes ==
    { MetaBackups \cup MetaDrops \cup MetaLists,
      MetaDrops \cup MetaExists \cup MetaIds,
      MetaOps \cup MetaLists,
      MetaOps \cup MetaDrops }

MetaClock == 100000 * 1000

MetaRecords ==
    SpaceRecords \o
    << <<PartKey(1, 1), {1}>>, <<PartKey(2, 1), {2}>>,
       <<HostKey(1), HostInfo("STORAGE", MetaClock)>>,
       <<HostKey(2), HostInfo("STORAGE", 0)>>,
       <<HostKey(3), HostInfo("GRAPH", MetaClock - 100 * 1000)>>,
       <<LeaderKey(1, 1), LeaderVal(1, "SUCCEEDED")>>,
       <<ListenerKey(1, "ES", 1), 3>>,
       <<StatisKey(1), "DONE">> >>

InitMeta ==
    /\ store = KvMultiPut(EmptyStore, MetaRecords)
    /\ snapLog = <<>>
    /\ locks = [l \in LockNames |-> FreeLock]
    /\ clock = MetaClock
    /\ initId = 0
    /\ snapSpaces = {}
    /\ cpDone = {}
    /\ stamps = 0
    /\ call = <<>>
    /\ \E mix \in MetaMixes :
         /\ inflight = [t \in mix |-> NoWrite]
         /\ baton = [t \in mix |-> <<>>]
         /\ idPc = [t \in mix \cap MetaIds |-> "start"]
         /\ idLocal = [t \in mix \cap MetaIds |-> 0]
         /\ idRet = [t \in mix \cap MetaIds |-> NoRet]
         /\ bk = [p \in mix \cap MetaBackups |-> NewBackup]
         /\ dp = [t \in mix \cap MetaDrops |-> NewDrop]
         /\ lh = [t \in mix \cap MetaLists |-> NewList]
         /\ op = [t \in mix \cap (MetaOps \cup MetaExists) |-> NewOp]

NextMeta ==
    \/ \E p \in MetaBackups \cap DOMAIN bk :
        \/ BackupCheckLeader(p)
        \/ BackupIsIndexRebuilding(p)
        \/ BackupLockSnapshot(p)
        \/ BackupGetActiveHosts(p)
        \/ BackupSpaceNameToId(p)
        \/ BackupPrepare(p)
        \/ BackupBlockOn(p)
        \/ BackupUnblockAndFinish(p)
        \/ BackupCreateSnapshot(p)
        \/ BackupExportMeta(p)
        \/ BackupBlockOff(p)
        \/ BackupCommit(p)
        \/ BackupEngine(p)
        \/ BackupCommitted(p)
        \/ BackupManifest(p)
    \/ \E t \in MetaDrops \cap DOMAIN dp :
        \/ DropLockSnapshot(t)
        \/ DropLockSpace(t)
        \/ DropGetSpaceId(t)
        \/ DropCollectKeys(t)
        \/ DropEngine(t)
        \/ DropRemoved(t)
    \/ \E t \in MetaLists \cap DOMAIN lh :
        \/ ListLockSpace(t)
        \/ ListGetSpaceIdNameMap(t)
        \/ ListAllHostsWithStatus(t)
        \/ ListFillLeaders(t)
        \/ ListFillAllParts(t)
        \/ ListEngine(t)
    \/ \E t \in MetaOps \cap DOMAIN op :
        \/ OpCall(t)
        \/ OpEngine(t)
        \/ OpWaited(t)
        \/ OpUpdate(t)
    \/ \E t \in MetaExists \cap DOMAIN op :
        \/ ExistCall(t)
        \/ ExistLock(t)
        \/ ExistReturn(t)
    \/ \E t \in MetaIds \cap DOMAIN idPc :
        \/ IdLock(t)
        \/ IdGet(t)
        \/ IdPut(t)
        \/ IdEngine(t)
        \/ IdReturn(t)

SpecMeta == InitMeta /\ [][NextMeta]_vars

(***************************************************************************)
(* Snapshot::dropSnapshot(name, hosts), applied to one set of arguments in  *)
(* one state of the store and of Snapshot::spaces_.  `kv` is the code of   *)
(* the scan in getSpacesHosts, `fails` the pairs whose drop RPC fails.  The *)
(* name is passed to every RPC and decides nothing.                        *)
(***************************************************************************)
\* The loops of dropSnapshot: an RPC to every pair whose host is in `hosts`; a
\* failure is logged and the loop goes on.
RECURSIVE DropLoopStopAtFailure(_, _, _)
DropLoopStopAtFailure(ts, hosts, fails) ==
    IF ts = <<>> THEN <<>>
    ELSE IF Head(ts)[2] \notin hosts THEN DropLoopStopAtFailure(Tail(ts), hosts, fails)
    ELSE IF Head(ts) \in fails THEN <<Rpc("DROP", Head(ts), FALSE)>>
    ELSE <<Rpc("DROP", Head(ts), TRUE)>> \o DropLoopStopAtFailure(Tail(ts), hosts, fails)

RECURSIVE DropLoop(_, _, _)
DropLoop(ts, hosts, fails) ==
    IF ts = <<>> THEN <<>>
    ELSE IF Head(ts)[2] \notin hosts THEN DropLoop(Tail(ts), hosts, fails)
    ELSE <<Rpc("DROP", Head(ts), Head(ts) \notin fails)>> \o DropLoop(Tail(ts), hosts, fails)

DropSnapshot(s, spaces, hosts, kv, fails) ==
    IF kv # "SUCCEEDED" THEN [ret |-> SpacesHostsError(kv), sent |-> <<>>]
    ELSE [ret  |-> "SUCCEEDED",
          sent |-> DropLoop(SortPairs(GetSpacesHosts(s, spaces)), hosts, fails)]

DropSnapshotCall ==
    /\ call.pc = "args"
    /\ call' = [call EXCEPT
                  !.pc = "done",
                  !.ret = DropSnapshot(store, snapSpaces, call.hosts, call.kv, call.fails).ret,
                  !.sent = DropSnapshot(store, snapSpaces, call.hosts, call.kv, call.fails).sent]
    /\ UNCHANGED <<kvVars, locks, clock, idVars, bkVars, dropVars, lh, op>>

\* The spaces a CreateBackup has left in Snapshot::spaces_: none, or space 1.
SpacesLeft == {{}, {1}}

InitDropSnapshot ==
    /\ \E parts \in PartTables :
         store = KvMultiPut(EmptyStore, SpaceRecords \o parts)
    /\ snapSpaces \in SpacesLeft
    /\ \E hosts \in SUBSET Hosts, kv \in KvReadCodes,
          fails \in SUBSET GetSpacesHostsUnfiltered(store, {}) :
         call = [pc |-> "args", hosts |-> hosts, kv |-> kv, fails |-> fails,
                 ret |-> "NONE", sent |-> <<>>]
    /\ snapLog = <<>>
    /\ locks = [l \in LockNames |-> FreeLock]
    /\ inflight = <<>>
    /\ baton = <<>>
    /\ clock = 0
    /\ idPc = <<>> /\ idLocal = <<>> /\ idRet = <<>> /\ initId = 0
    /\ bk = <<>>
    /\ cpDone = {}
    /\ stamps = 0
    /\ dp = <<>>
    /\ lh = <<>>
    /\ op = <<>>

NextDropSnapshot == DropSnapshotCall

SpecDropSnapshot == InitDropSnapshot /\ [][NextDropSnapshot]_vars

(***************************************************************************)
(* ListHostsProcessor::allHostsWithStatus as a function of one host        *)
(* record, the role asked for, `now` and the three flags.  `now` and the   *)
(* heartbeat time are int64_t; FLAGS_removed_threshold_sec * 1000 is an    *)
(* int32_t product, whose overflow is undefined: a build computes it in 32 *)
(* bits and wraps, or computes it in the 64 bits of the comparison.        *)
(***************************************************************************)
\* a * 1000 in a 32-bit two's-complement register, for 0 <= a <= Int32Max.
Wrap32Mul1000(a) ==
    LET lo == (a % 65536) * 1000
        hi == ((a \div 65536) * 1000 + (lo \div 65536)) % 65536
    IN  (IF hi >= 32768 THEN hi - 65536 ELSE hi) * 65536 + (lo % 65536)

Builds == {"wrap", "wide"}

\* now - info.lastHBTimeInMilliSec_ < FLAGS_removed_threshold_sec * 1000
BelowRemovedThreshold(age, sec, build) ==
    IF sec <= Int32Max \div 1000 THEN age < sec * 1000
    ELSE IF build = "wrap" THEN age < Wrap32Mul1000(sec)
    ELSE age \div 1000 < sec

\* now - info.lastHBTimeInMilliSec_ <
\*     FLAGS_heartbeat_interval_secs * FLAGS_expired_time_factor * 1000
BelowExpiredThreshold(age, flags) ==
    age < flags.heartbeat_interval_secs * flags.expired_time_factor * 1000

\* One turn of the loop: the record is skipped, listed with a status, or its key
\* goes to removeHostsKey.
HostClass(info, role, now, flags, build) ==
    IF info.role # role THEN "SKIPPED"
    ELSE IF BelowRemovedThreshold(now - info.lastHB, flags.removed_threshold_sec, build)
    THEN IF BelowExpiredThreshold(now - info.lastHB, flags) THEN "ONLINE" ELSE "OFFLINE"
    ELSE "REMOVED"

HostStatusCall ==
    /\ call.pc = "args"
    /\ call' = [call EXCEPT
                  !.pc = "done",
                  !.ret = HostClass(call.info, ToHostRole(call.type), call.now,
                                    call.flags, call.build)]
    /\ UNCHANGED <<kvVars, locks, clock, idVars, bkVars, dropVars, lh, op>>

\* Flag settings: the defaults, a removal threshold of 30 days, and one below the
\* expiry threshold.
FlagSettings ==
    [heartbeat_interval_secs : {1, HeartbeatIntervalSecs},
     expired_time_factor     : {1, ExpiredTimeFactor},
     removed_threshold_sec   : {20, RemovedThresholdSec, 30 * RemovedThresholdSec}]

\* Heartbeat ages around each threshold, and a heartbeat ahead of `now`.
HeartbeatAges ==
    {-5, 0, 999, 1000, 19999, 20000, 49999, 50000,
     RemovedThresholdSec * 1000 - 1, RemovedThresholdSec * 1000}

InitHostStatus ==
    /\ \E flags \in FlagSettings, age \in HeartbeatAges, build \in Builds,
          role \in {"GRAPH", "STORAGE"}, type \in {"GRAPH", "STORAGE"} :
         call = [pc |-> "args", flags |-> flags, build |-> build, type |-> type,
                 now |-> MetaClock, info |-> HostInfo(role, MetaClock - age),
                 ret |-> "NONE"]
    /\ store = EmptyStore
    /\ snapLog = <<>>
    /\ locks = [l \in LockNames |-> FreeLock]
    /\ inflight = <<>>
    /\ baton = <<>>
    /\ clock = MetaClock
    /\ idPc = <<>> /\ idLocal = <<>> /\ idRet = <<>> /\ initId = 0
    /\ bk = <<>>
    /\ snapSpaces = {}
    /\ cpDone = {}
    /\ stamps = 0
    /\ dp = <<>>
    /\ lh = <<>>
    /\ op = <<>>

NextHostStatus == HostStatusCall

SpecHostStatus == InitHostStatus /\ [][NextHostStatus]_vars

(***************************************************************************)
(* ListHostsProcessor::process, one request over a store whose hosts are   *)
(* fresh, expired or past the removal threshold and whose leader records   *)
(* name hosts of every kind.                                               *)
(***************************************************************************)
ListAges == {0, 60 * 1000, 100000 * 1000}

ListHostTables ==
    { << <<HostKey(1), HostInfo("STORAGE", MetaClock - a1)>>,
         <<HostKey(2), HostInfo("STORAGE", MetaClock - a2)>>,
         <<HostKey(3), HostInfo("GRAPH", MetaClock)>> >> : a1 \in ListAges, a2 \in ListAges }

LeaderRecords ==
    << <<LeaderKey(1, 1), LeaderVal(1, "SUCCEEDED")>>,
       <<LeaderKey(1, 2), LeaderVal(2, "SUCCEEDED")>>,
       <<LeaderKey(2, 1), LeaderVal(3, "SUCCEEDED")>>,
       <<LeaderKey(2, 2), LeaderVal(1, "E_LEADER_CHANGED")>>,
       <<LeaderKey(3, 1), LeaderVal(1, "SUCCEEDED")>> >>

InitList ==
    /\ \E hosts \in ListHostTables,
          absent \in SUBSET {LeaderRecords[i][1] : i \in 1..Len(LeaderRecords)} :
         store = KvMultiRemove(
                     KvMultiPut(EmptyStore,
                                SpaceRecords \o <<<<PartKey(1, 1), {1, 2}>>,
                                                  <<PartKey(2, 1), {2}>>>>
                                    \o hosts \o LeaderRecords),
                     absent)
    /\ snapLog = <<>>
    /\ locks = [l \in LockNames |-> FreeLock]
    /\ inflight = [t \in MetaLists |-> NoWrite]
    /\ baton = [t \in MetaLists |-> <<>>]
    /\ clock = MetaClock
    /\ idPc = <<>> /\ idLocal = <<>> /\ idRet = <<>> /\ initId = 0
    /\ bk = <<>>
    /\ snapSpaces = {}
    /\ cpDone = {}
    /\ stamps = 0
    /\ dp = <<>>
    /\ lh = [t \in MetaLists |-> NewList]
    /\ op = <<>>
    /\ call = <<>>

NextList ==
    \E t \in MetaLists :
        \/ ListLockSpace(t)
        \/ ListGetSpaceIdNameMap(t)
        \/ ListAllHostsWithStatus(t)
        \/ ListFillLeaders(t)
        \/ ListFillAllParts(t)
        \/ ListEngine(t)

SpecList == InitList /\ [][NextList]_vars

(***************************************************************************)
(* ListHosts next to the heartbeats of the hosts.  A heartbeat stores the  *)
(* host's record with the time of its arrival; it takes none of the locks. *)
(***************************************************************************)
Heartbeat(h) ==
    /\ KvHas(store, HostKey(h))
    /\ store[HostKey(h)].lastHB # clock
    /\ store' = KvPutOne(store, HostKey(h), HostInfo(store[HostKey(h)].role, clock))
    /\ UNCHANGED <<snapLog, inflight, baton, locks, clock, idVars, bkVars, dropVars, restVars>>

NextRefresh ==
    \/ \E t \in MetaLists :
        \/ ListLockSpace(t)
        \/ ListGetSpaceIdNameMap(t)
        \/ ListAllHostsWithStatus(t)
        \/ ListFillLeaders(t)
        \/ ListFillAllParts(t)
        \/ ListEngine(t)
    \/ \E h \in Hosts : Heartbeat(h)

SpecRefresh == InitList /\ [][NextRefresh]_vars

(***************************************************************************)
(* BaseProcessor::indexCheck and BaseProcessor::checkIndexExist, each      *)
(* applied to one set of arguments.  A column, a tag column and an index   *)
(* field are their names; an index item is the sequence of its fields, an  *)
(* alter item its op and the sequence of its columns.                      *)
(***************************************************************************)
MaxCols == 2           \* longest column list of an index or of an alter item

ColumnNames == {"a", "b"}

ColumnLists == UNION {[1..n -> ColumnNames] : n \in 0..MaxCols}

AlterSchemaOps == {"ADD", "CHANGE", "DROP"}

\* *tagItem.op_ref() == CHANGE || *tagItem.op_ref() == DROP
IsChange(o) == o = "CHANGE"
IsChangeOrDrop(o) == o = "CHANGE" \/ o = "DROP"

\* The loop over tagCols with its find_if over indexCols.
RECURSIVE ColumnConflict(_, _)
ColumnConflict(tagCols, indexCols) ==
    IF tagCols = <<>> THEN FALSE
    ELSE IF \E i \in 1..Len(indexCols) : Head(tagCols) = indexCols[i] THEN TRUE
    ELSE ColumnConflict(Tail(tagCols), indexCols)

\* The loop over alterItems for one index.
RECURSIVE AlterConflict(_, _)
AlterConflict(index, alterItems) ==
    IF alterItems = <<>> THEN FALSE
    ELSE IF IsChangeOrDrop(Head(alterItems).op)
            /\ ColumnConflict(Head(alterItems).columns, index) THEN TRUE
    ELSE AlterConflict(index, Tail(alterItems))

RECURSIVE IndexCheck(_, _)
IndexCheck(items, alterItems) ==
    IF items = <<>> THEN "SUCCEEDED"
    ELSE IF AlterConflict(Head(items), alterItems) THEN "E_CONFLICT"
    ELSE IndexCheck(Tail(items), alterItems)

\* The loop of checkIndexExist from position i (1-based).  item.get_fields()[i]
\* is an unchecked vector access: past the end of item's fields the read value is
\* anything, or the process dies.
RECURSIVE CheckIndexExistFrom(_, _, _)
CheckIndexExistFrom(fields, itemFields, i) ==
    IF i > Len(fields) THEN {"false"}
    ELSE IF i > Len(itemFields) THEN {"true", "false", "crash"}
    ELSE IF fields[i] # itemFields[i] THEN {"false"}
    ELSE IF i = Len(fields) THEN {"true"}
    ELSE CheckIndexExistFrom(fields, itemFields, i + 1)

CheckIndexExist(fields, itemFields) ==
    IF Len(fields) = 0 THEN {"true"} ELSE CheckIndexExistFrom(fields, itemFields, 1)

IndexCheckCall ==
    /\ call.pc = "args" /\ call.fn = "indexCheck"
    /\ call' = [call EXCEPT !.pc = "done", !.ret = IndexCheck(call.items, call.alterItems)]
    /\ UNCHANGED <<kvVars, locks, clock, idVars, bkVars, dropVars, lh, op>>

CheckIndexExistCall ==
    /\ call.pc = "args" /\ call.fn = "checkIndexExist"
    /\ \E r \in CheckIndexExist(call.fields, call.item) :
         call' = [call EXCEPT !.pc = "done", !.ret = r]
    /\ UNCHANGED <<kvVars, locks, clock, idVars, bkVars, dropVars, lh, op>>

\* The sequences over S of at most two elements.
UpToTwo(S) == {<<>>} \cup {<<x>> : x \in S} \cup {<<x, y>> : x \in S, y \in S}

InitIndex ==
    /\ \/ \E items \in UpToTwo(ColumnLists),
             alterItems \in UpToTwo([op : AlterSchemaOps, columns : ColumnLists]) :
            call = [pc |-> "args", fn |-> "indexCheck", items |-> items,
                    alterItems |-> alterItems, ret |-> "NONE"]
       \/ \E fields \in ColumnLists, item \in ColumnLists :
            call = [pc |-> "args", fn |-> "checkIndexExist", fields |-> fields,
                    item |-> item, ret |-> "NONE"]
    /\ store = EmptyStore
    /\ snapLog = <<>>
    /\ locks = [l \in LockNames |-> FreeLock]
    /\ inflight = <<>>
    /\ baton = <<>>
    /\ clock = 0
    /\ idPc = <<>> /\ idLocal = <<>> /\ idRet = <<>> /\ initId = 0
    /\ bk = <<>>
    /\ snapSpaces = {}
    /\ cpDone = {}
    /\ stamps = 0
    /\ dp = <<>>
    /\ lh = <<>>
    /\ op = <<>>

NextIndex == IndexCheckCall \/ CheckIndexExistCall

SpecIndex == InitIndex /\ [][NextIndex]_vars

(***************************************************************************)
(* LookupBaseProcessor: requestCheck, isOutsideIndex, buildPlan and its    *)
(* four builders.  An expression is its kind, the property name of a       *)
(* property node and the sequence of its operands.  The schema manager and *)
(* the index manager are what they answer: `env.vidLen` the code of        *)
(* getSpaceVidLen, `env.name` whether toTagName / toEdgeName finds the id, *)
(* `env.allVer` the answer of getAllVerTagSchema / getAllVerEdgeSchema     *)
(* (the versions of the id, none when the map does not hold it),           *)
(* `env.tagIndex` and `env.edgeIndex` the fields of the indexes by id.     *)
(***************************************************************************)
Expr(kind, prop, args) == [kind |-> kind, prop |-> prop, args |-> args]

PropsInKey == {"_vid", "_tag", "_src", "_type", "_rank", "_dst"}
PropsInEdgeKey == {"_src", "_type", "_rank", "_dst"}

\* std::find_if over the fields by name.
HasField(fields, name) == \E i \in 1..Len(fields) : fields[i] = name

\* isOutsideIndex(filter, index): the loops return at the first operand that is
\* outside; every kind the switch does not name is answered false without a look
\* at its operands.
RECURSIVE IsOutsideIndex(_, _)
IsOutsideIndex(e, fields) ==
    CASE e.kind \in {"kLogicalOr", "kLogicalAnd"} ->
            \E i \in 1..Len(e.args) : IsOutsideIndex(e.args[i], fields)
      [] e.kind \in {"kRelLE", "kRelIn", "kRelGE", "kRelEQ", "kRelLT", "kRelGT",
                     "kRelNE", "kRelNotIn"} ->
            IsOutsideIndex(e.args[1], fields) \/ IsOutsideIndex(e.args[2], fields)
      [] e.kind \in {"kEdgeSrc", "kEdgeType", "kEdgeRank", "kEdgeDst"} ->
            e.prop \notin PropsInEdgeKey
      [] e.kind \in {"kTagProperty", "kEdgeProperty"} -> ~HasField(fields, e.prop)
      [] OTHER -> FALSE

IsOutsideIndexCall ==
    /\ call.pc = "args" /\ call.fn = "isOutsideIndex"
    /\ call' = [call EXCEPT
                  !.pc = "done",
                  !.ret = IF IsOutsideIndex(call.filter, call.fields) THEN "true"
                          ELSE "false"]
    /\ UNCHANGED <<kvVars, locks, clock, idVars, bkVars, dropVars, lh, op>>

\* indices.get_contexts().empty() || !req.return_columns_ref().has_value() ||
\* (*req.return_columns_ref()).empty()
NoContexts(req) == req.contexts = <<>>
NoContextsOrColumns(req) ==
    \/ req.contexts = <<>>
    \/ ~req.return_columns.is_set
    \/ req.return_columns.value = <<>>

\* The positions (from 0) of the yield columns whose toReturnColType is not kOther.
DeDupColPos(yieldCols) == {i - 1 : i \in {j \in 1..Len(yieldCols) : yieldCols[j] \in PropsInKey}}

\* requestCheck(req) on the processor state c.
RequestCheck(c) ==
    LET req == c.req
        notFound == IF req.is_edge THEN "E_EDGE_NOT_FOUND" ELSE "E_TAG_NOT_FOUND"
        ctx0 == [isEdge |-> req.is_edge, id |-> req.tag_or_edge_id, name |-> "",
                 schema |-> 0]
        ctx1 == [ctx0 EXCEPT !.name = "name"]
    IN  IF c.env.vidLen # "SUCCEEDED" THEN [c EXCEPT !.ret = c.env.vidLen]
        ELSE IF ~c.env.name THEN [c EXCEPT !.ret = notFound, !.planContext = <<ctx0>>]
        ELSE IF ~c.env.allVer.ok \/ c.env.allVer.versions = <<>>
        THEN [c EXCEPT !.ret = notFound, !.planContext = <<ctx1>>]
        ELSE LET ctx2 == [ctx1 EXCEPT
                             !.schema = c.env.allVer.versions[Len(c.env.allVer.versions)]]
             IN  IF NoContextsOrColumns(req)
                 THEN [c EXCEPT !.ret = "E_INVALID_OPERATION", !.planContext = <<ctx2>>,
                                !.schemas_ = c.env.allVer.versions]
                 ELSE [c EXCEPT !.ret = "SUCCEEDED", !.planContext = <<ctx2>>,
                                !.schemas_ = c.env.allVer.versions,
                                !.contexts_ = req.contexts,
                                !.yieldCols_ = req.return_columns.value,
                                !.colNames = req.return_columns.value,
                                !.deDupColPos_ = DeDupColPos(req.return_columns.value)]

LookupRequestCheck ==
    /\ call.pc = "args" /\ call.fn = "lookup"
    /\ call' = [RequestCheck(call) EXCEPT
                  !.pc = IF RequestCheck(call).ret = "SUCCEEDED" THEN "checked" ELSE "done"]
    /\ UNCHANGED <<kvVars, locks, clock, idVars, bkVars, dropVars, lh, op>>

\* A plan node: its class and the positions in the plan of the nodes it depends on.
Node(kind, deps) == [kind |-> kind, deps |-> deps]

FetchKind(isEdge) == IF isEdge THEN "IndexEdgeNode" ELSE "IndexVertexNode"

\* The builders: the nodes each adds to a plan that holds `base` nodes, followed by
\* the output node it returns.
BuildPlanBasicUnwired(base) ==
    <<Node("IndexScanNode", {}), Node("IndexOutputNode", {})>>

BuildPlanBasic(base) ==
    <<Node("IndexScanNode", {}), Node("IndexOutputNode", {base + 1})>>

BuildPlanWithData(base, isEdge) ==
    <<Node("IndexScanNode", {}), Node(FetchKind(isEdge), {base + 1}),
      Node("IndexOutputNode", {base + 2})>>

BuildPlanWithFilter(base) ==
    <<Node("IndexScanNode", {}), Node("IndexFilterNode", {base + 1}),
      Node("IndexOutputNode", {base + 2})>>

BuildPlanWithDataAndFilter(base, isEdge) ==
    <<Node("IndexScanNode", {}), Node(FetchKind(isEdge), {base + 1}),
      Node("IndexFilterNode", {base + 2}), Node("IndexOutputNode", {base + 3})>>

\* ctx.filter_ref().is_set() && !(*ctx.filter_ref()).empty()
FilterNeverPresent(ctx) == FALSE
FilterPresent(ctx) == ctx.filter.is_set /\ ctx.filter.value # <<>>

\* The loop over yieldCols_.
YieldNeedsDataOffKey(yieldCols, fields) ==
    \E i \in 1..Len(yieldCols) : ~HasField(fields, yieldCols[i])
YieldNeedsData(yieldCols, fields) ==
    \E i \in 1..Len(yieldCols) :
        yieldCols[i] \notin PropsInKey /\ ~HasField(fields, yieldCols[i])

\* One turn of the loop of buildPlan, for the context ctx and a plan of `base`
\* nodes.  The builders return what make_unique returned, never a null pointer.
ContextPlan(c, ctx, base) ==
    LET isEdge == c.planContext[1].isEdge
        index == IF isEdge THEN c.env.edgeIndex ELSE c.env.tagIndex
    IN  IF ctx.index_id \notin DOMAIN index
        THEN [status |-> "IndexNotFound", nodes |-> <<>>, filterItems |-> <<>>]
        ELSE
        LET fields == index[ctx.index_id]
            outside == FilterPresent(ctx) /\ IsOutsideIndex(ctx.filter.value[1], fields)
            needData == YieldNeedsData(c.yieldCols_, fields) \/ outside
            needFilter == FilterPresent(ctx) \/ outside
        IN  IF ~needData /\ ~needFilter
            THEN [status |-> "OK", nodes |-> BuildPlanBasic(base), filterItems |-> <<>>]
            ELSE IF needData /\ ~needFilter
            THEN [status |-> "OK", nodes |-> BuildPlanWithData(base, isEdge),
                  filterItems |-> <<>>]
            ELSE IF ~needData /\ needFilter
            THEN [status |-> "OK", nodes |-> BuildPlanWithFilter(base),
                  filterItems |-> <<[exprCtx |-> "fields", expr |-> ctx.filter.value[1]]>>]
            ELSE IF c.schemas_ = <<>>
            THEN [status |-> "Schema not found", nodes |-> <<>>, filterItems |-> <<>>]
            ELSE [status |-> "OK", nodes |-> BuildPlanWithDataAndFilter(base, isEdge),
                  filterItems |-> <<[exprCtx |-> "schema", expr |-> ctx.filter.value[1]]>>]

\* The loop of buildPlan from context i, and the tail: deDup and IndexAggr.
RECURSIVE BuildPlanFrom(_, _, _)
BuildPlanFrom(c, i, acc) ==
    IF i > Len(c.contexts_)
    THEN [status |-> "OK",
          nodes |-> acc.nodes \o <<Node("DeDupNode", acc.deps),
                                   Node("AggregateNode", {Len(acc.nodes) + 1})>>,
          filterItems |-> acc.filterItems]
    ELSE LET r == ContextPlan(c, c.contexts_[i], Len(acc.nodes))
         IN  IF r.status # "OK"
             THEN [status |-> r.status, nodes |-> <<>>, filterItems |-> acc.filterItems]
             ELSE BuildPlanFrom(c, i + 1,
                                [nodes |-> acc.nodes \o r.nodes,
                                 deps |-> acc.deps \cup {Len(acc.nodes) + Len(r.nodes)},
                                 filterItems |-> acc.filterItems \o r.filterItems])

BuildPlan(c) == BuildPlanFrom(c, 1, [nodes |-> <<>>, deps |-> {}, filterItems |-> <<>>])

\* buildPlan(), called once requestCheck has returned SUCCEEDED.
LookupBuildPlan ==
    /\ call.pc = "checked"
    /\ call' = [call EXCEPT !.pc = "planned",
                            !.status = BuildPlan(call).status,
                            !.plan = BuildPlan(call).nodes,
                            !.filterItems_ = BuildPlan(call).filterItems]
    /\ UNCHANGED <<kvVars, locks, clock, idVars, bkVars, dropVars, lh, op>>

\* Filters: c1 == 1 AND c2 == 1; the same AND c3 > 1; c1 > 1 AND c2 > 1.
Constant == Expr("kConstant", "", <<>>)
TagProp(p) == Expr("kTagProperty", p, <<>>)
Rel(kind, p) == Expr(kind, "", <<TagProp(p), Constant>>)

FilterEq12 == Expr("kLogicalAnd", "", <<Rel("kRelEQ", "c1"), Rel("kRelEQ", "c2")>>)
FilterEq12Gt3 ==
    Expr("kLogicalAnd", "", <<Rel("kRelEQ", "c1"), Rel("kRelEQ", "c2"), Rel("kRelGT", "c3")>>)
FilterGt12 == Expr("kLogicalAnd", "", <<Rel("kRelGT", "c1"), Rel("kRelGT", "c2")>>)

ContextFilters ==
    {[is_set |-> FALSE, value |-> <<>>], [is_set |-> TRUE, value |-> <<>>]}
        \cup {[is_set |-> TRUE, value |-> <<e>>] : e \in {FilterEq12, FilterEq12Gt3, FilterGt12}}

Contexts == [index_id : {1, 2}, filter : ContextFilters]

ReturnColumns ==
    {[is_set |-> FALSE, value |-> <<>>], [is_set |-> TRUE, value |-> <<>>]}
        \cup {[is_set |-> TRUE, value |-> v] : v \in {<<"c3">>, <<"c1", "c2">>, <<"_vid", "c1">>}}

\* The tag has index 1 and the edge has index 2, both on (c1, c2).
LookupEnvs ==
    [vidLen : {"SUCCEEDED", "E_INVALID_SPACEVIDLEN"},
     name : BOOLEAN,
     allVer : {[ok |-> FALSE, versions |-> <<>>], [ok |-> TRUE, versions |-> <<>>],
               [ok |-> TRUE, versions |-> <<1>>], [ok |-> TRUE, versions |-> <<1, 2>>]},
     tagIndex : {[i \in {1} |-> <<"c1", "c2">>]},
     edgeIndex : {[i \in {2} |-> <<"c1", "c2">>]}]

\* Expressions for isOutsideIndex: properties and constants, alone or under an
\* arithmetic or function-call node, compared, and joined by AND / OR.
Leaves == {TagProp("c1"), TagProp("c3"), Expr("kEdgeProperty", "c3", <<>>),
           Expr("kEdgeSrc", "_src", <<>>), Constant}

Terms ==
    Leaves \cup {Expr("kAdd", "", <<l, Constant>>) : l \in Leaves}
           \cup {Expr("kFunctionCall", "", <<l>>) : l \in Leaves}

Relations == {Expr(k, "", <<l, r>>) : k \in {"kRelEQ", "kRelGT"}, l \in Terms,
                                      r \in {Constant, TagProp("c1")}}

Filters ==
    Terms \cup Relations
          \cup {Expr(k, "", <<a, b>>) : k \in {"kLogicalAnd", "kLogicalOr"}, a \in Relations,
                                        b \in {Rel("kRelEQ", "c1"), Rel("kRelGT", "c3")}}

InitLookup ==
    /\ \/ \E req \in [space_id : {1}, is_edge : BOOLEAN, tag_or_edge_id : {1},
                     contexts : UpToTwo(Contexts), return_columns : ReturnColumns],
             env \in LookupEnvs :
            call = [pc |-> "args", fn |-> "lookup", req |-> req, env |-> env,
                    ret |-> "NONE", planContext |-> <<>>, schemas_ |-> <<>>,
                    contexts_ |-> <<>>, yieldCols_ |-> <<>>, colNames |-> <<>>,
                    deDupColPos_ |-> {}, status |-> "NONE", plan |-> <<>>,
                    filterItems_ |-> <<>>]
       \/ \E filter \in Filters, fields \in {<<"c1", "c2">>, <<"c1", "c2", "c3">>} :
            call = [pc |-> "args", fn |-> "isOutsideIndex", filter |-> filter,
                    fields |-> fields, ret |-> "NONE"]
    /\ store = EmptyStore
    /\ snapLog = <<>>
    /\ locks = [l \in LockNames |-> FreeLock]
    /\ inflight = <<>>
    /\ baton = <<>>
    /\ clock = 0
    /\ idPc = <<>> /\ idLocal = <<>> /\ idRet = <<>> /\ initId = 0
    /\ bk = <<>>
    /\ snapSpaces = {}
    /\ cpDone = {}
    /\ stamps = 0
    /\ dp = <<>>
    /\ lh = <<>>
    /\ op = <<>>

NextLookup == LookupRequestCheck \/ LookupBuildPlan \/ IsOutsideIndexCall

SpecLookup == InitLookup /\ [][NextLookup]_vars

(***************************************************************************)
(* CreateBackup and DropSpace on the same store and locks: one backup      *)
(* request and two drop requests, each of any space name.                  *)
(***************************************************************************)
ExclusionBackups == {<<"backup", 1>>}
ExclusionDrops == {<<"drop", 1>>, <<"drop", 2>>}

ExclusionRecords ==
    SpaceRecords
        \o <<<<PartKey(1, 1), {1}>>, <<PartKey(2, 1), {1}>>,
             <<HostKey(1), HostInfo("STORAGE", 60000)>>, <<RoleKey(2, "u1"), "GUEST">>>>

InitExclusion ==
    /\ store = KvMultiPut(EmptyStore, ExclusionRecords)
    /\ snapLog = <<>>
    /\ locks = [l \in LockNames |-> FreeLock]
    /\ inflight = [t \in ExclusionBackups \cup ExclusionDrops |-> NoWrite]
    /\ baton = [t \in ExclusionBackups \cup ExclusionDrops |-> <<>>]
    /\ clock = 60000
    /\ idPc = <<>> /\ idLocal = <<>> /\ idRet = <<>> /\ initId = 0
    /\ bk = [p \in ExclusionBackups |-> NewBackup]
    /\ snapSpaces = {}
    /\ cpDone = {}
    /\ stamps = 0
    /\ dp = [t \in ExclusionDrops |-> NewDrop]
    /\ lh = <<>> /\ op = <<>> /\ call = <<>>

NextExclusion ==
    \/ \E p \in ExclusionBackups :
        \/ BackupCheckLeader(p)
        \/ BackupIsIndexRebuilding(p)
        \/ BackupLockSnapshot(p)
        \/ BackupGetActiveHosts(p)
        \/ BackupSpaceNameToId(p)
        \/ BackupPrepare(p)
        \/ BackupBlockOn(p)
        \/ BackupUnblockAndFinish(p)
        \/ BackupCreateSnapshot(p)
        \/ BackupExportMeta(p)
        \/ BackupBlockOff(p)
        \/ BackupCommit(p)
        \/ BackupEngine(p)
        \/ BackupCommitted(p)
        \/ BackupManifest(p)
    \/ \E t \in ExclusionDrops :
        \/ DropLockSnapshot(t)
        \/ DropLockSpace(t)
        \/ DropGetSpaceId(t)
        \/ DropCollectKeys(t)
        \/ DropEngine(t)
        \/ DropRemoved(t)

SpecExclusion == InitExclusion /\ [][NextExclusion]_vars

(***************************************************************************)
(* C1: N concurrent calls of autoIncrementId() whose KV reads and writes   *)
(* all succeed, starting from a stored counter k (k = 0 when the key is    *)
(* absent), return exactly the ids k+1 .. k+N, each once.                  *)
(***************************************************************************)
IdAllSucceeded == \A t \in IdThreads : idPc[t] = "done" /\ idRet[t].ok

C1_IdsArePermutation ==
    IdAllSucceeded =>
        /\ {idRet[t].id : t \in IdThreads} = (initId + 1)..(initId + NumCallers)
        /\ \A t, u \in IdThreads : t # u => idRet[t].id # idRet[u].id

C1_Witness == IdAllSucceeded /\ initId > 0

(***************************************************************************)
(* Vocabulary of the backup claims.  A run's targets are the <<space, host>>*)
(* pairs of the part table of its chosen spaces, read here from the part   *)
(* records themselves.                                                     *)
(***************************************************************************)
PartHolders(spaces) ==
    {t \in SpaceIds \X Hosts :
        /\ t[1] \in spaces
        /\ \E k \in DOMAIN store : k[1] = "part" /\ k[2] = t[1] /\ t[2] \in store[k]}

EventsOf(tr, kind) == {i \in 1..Len(tr) : tr[i].kind = kind}
SentTo(tr, kind)   == {<<tr[i].space, tr[i].host>> : i \in EventsOf(tr, kind)}
OkOn(tr, kind) ==
    {<<tr[i].space, tr[i].host>> : i \in {j \in EventsOf(tr, kind) : tr[j].ok}}
FailedOn(tr, kind) ==
    {<<tr[i].space, tr[i].host>> : i \in {j \in EventsOf(tr, kind) : ~tr[j].ok}}
Before(tr, i) == SubSeq(tr, 1, i - 1)

Started(p)  == bk[p].name # 0
IsValid(name) ==
    KvHas(store, SnapshotKey(name)) /\ store[SnapshotKey(name)].status = "VALID"
IsInvalid(name) ==
    KvHas(store, SnapshotKey(name)) /\ store[SnapshotKey(name)].status = "INVALID"
CommitIssued(p) == bk[p].pc = "commitWait" \/ EventsOf(bk[p].trace, "COMMIT") # {}

(***************************************************************************)
(* C2: a CreateBackup run that completes with SUCCEEDED has sent BLOCK_ON  *)
(* to every target, then createSnapshot to every target, then exported the *)
(* meta SST, then sent BLOCK_OFF to every target, then committed the       *)
(* record, in this order; no checkpoint RPC is issued before BLOCK_ON      *)
(* succeeded on all targets, and the VALID record is not handed to the     *)
(* store before BLOCK_OFF succeeded on all targets.                        *)
(***************************************************************************)
PhaseOrder(tr) ==
    \A i, j \in 1..Len(tr) :
        LET rank(k) == CASE k = "BLOCK_ON" -> 1 [] k = "SNAPSHOT" -> 2 [] k = "EXPORT" -> 3
                         [] k = "BLOCK_OFF" -> 4 [] k = "COMMIT" -> 5
        IN  i < j => rank(tr[i].kind) <= rank(tr[j].kind)

C2_BackupStepOrder ==
    \A p \in BackupProcs :
        LET tr == bk[p].trace
            T  == PartHolders(bk[p].spaces)
        IN  /\ (bk[p].pc = "done" /\ bk[p].code = "SUCCEEDED") =>
                  /\ PhaseOrder(tr)
                  /\ OkOn(tr, "BLOCK_ON") = T /\ OkOn(tr, "SNAPSHOT") = T
                  /\ OkOn(tr, "BLOCK_OFF") = T
                  /\ Cardinality(EventsOf(tr, "EXPORT")) = 1
                  /\ Cardinality(EventsOf(tr, "COMMIT")) = 1
                  /\ Len(tr) = 3 * Cardinality(T) + 2
            /\ \A i \in EventsOf(tr, "SNAPSHOT") :
                  /\ OkOn(Before(tr, i), "BLOCK_ON") = T
                  /\ FailedOn(Before(tr, i), "BLOCK_ON") = {}
            /\ CommitIssued(p) =>
                  /\ OkOn(tr, "BLOCK_OFF") = T
                  /\ FailedOn(tr, "BLOCK_OFF") = {}

C2_Witness ==
    \E p \in BackupProcs :
        /\ bk[p].pc = "done" /\ bk[p].code = "SUCCEEDED"
        /\ Cardinality(PartHolders(bk[p].spaces)) = 3

(***************************************************************************)
(* C3: a VALID record exists for a run's backup name only if BLOCK_ON,     *)
(* createSnapshot and BLOCK_OFF succeeded on every target and the meta     *)
(* export succeeded; a run in which one of these steps failed leaves no    *)
(* VALID record for its name.                                              *)
(***************************************************************************)
StepFailed(p) ==
    \/ \E i \in 1..Len(bk[p].trace) : ~bk[p].trace[i].ok /\ bk[p].trace[i].kind # "COMMIT"
    \/ bk[p].pc \in {"unblock", "done"} /\ bk[p].ret \in {"E_STORE_FAILURE", "E_LEADER_CHANGED"}

C3_ValidOnlyAfterAllSteps ==
    \A p \in BackupProcs :
        LET tr == bk[p].trace
            T  == PartHolders(bk[p].spaces)
        IN  /\ (Started(p) /\ IsValid(bk[p].name)) =>
                  /\ OkOn(tr, "BLOCK_ON") = T /\ OkOn(tr, "SNAPSHOT") = T
                  /\ OkOn(tr, "BLOCK_OFF") = T
                  /\ \E i \in EventsOf(tr, "EXPORT") : tr[i].ok
            /\ (Started(p) /\ StepFailed(p)) => ~IsValid(bk[p].name)

C3_Witness ==
    \E p \in BackupProcs :
        /\ Started(p) /\ IsValid(bk[p].name)
        /\ PartHolders(bk[p].spaces) # {}

(***************************************************************************)
(* C4: whenever CreateBackup completes with an error after BLOCK_ON was    *)
(* sent to at least one host, BLOCK_OFF has been sent to every target      *)
(* before the completion hook fired.  The runs whose last Snapshot call    *)
(* failed to scan the part table are left out: the claim is stated for the *)
(* runs in which the targets were known to every call.                     *)
(***************************************************************************)
ScanFailed(p) == bk[p].ret \in {"E_LEADER_CHANGED", "E_STORE_FAILURE"}

C4_FailedBackupUnblocks ==
    \A p \in BackupProcs :
        (/\ bk[p].fin > 0
         /\ bk[p].code # "SUCCEEDED"
         /\ EventsOf(bk[p].trace, "BLOCK_ON") # {}
         /\ ~ScanFailed(p))
        => SentTo(bk[p].trace, "BLOCK_OFF") = PartHolders(bk[p].spaces)

(***************************************************************************)
(* C5: an INVALID snapshot record is stored under snapshotKey(name) before *)
(* the first BLOCK_ON is sent, so a run aborted by a blocking-writes or    *)
(* checkpoint failure leaves an INVALID record for its name.               *)
(***************************************************************************)
C5_InvalidRecordBeforeBlockOn ==
    \A p \in BackupProcs :
        /\ EventsOf(bk[p].trace, "BLOCK_ON") # {} => KvHas(store, SnapshotKey(bk[p].name))
        /\ (/\ bk[p].pc = "done"
            /\ FailedOn(bk[p].trace, "BLOCK_ON") \cup FailedOn(bk[p].trace, "SNAPSHOT") # {})
           => IsInvalid(bk[p].name)

(***************************************************************************)
(* C6: if a BLOCK_ON RPC failed on some host, the run completes with       *)
(* E_BLOCK_WRITE_FAILURE, whatever the following BLOCK_OFF returns, and    *)
(* BLOCK_OFF has been sent to every target, continuing past failures.      *)
(***************************************************************************)
BlockOnFailed(p) == bk[p].pc = "done" /\ FailedOn(bk[p].trace, "BLOCK_ON") # {}

C6_BlockOnFailureUnblocksAll ==
    \A p \in BackupProcs :
        BlockOnFailed(p) =>
            /\ bk[p].code = "E_BLOCK_WRITE_FAILURE"
            /\ SentTo(bk[p].trace, "BLOCK_OFF") = PartHolders(bk[p].spaces)

\* C6 as amended: BLOCK_OFF reaches every target whenever the part-table scan of the
\* BLOCK_OFF call itself succeeded (the call returned SUCCEEDED or
\* E_BLOCK_WRITE_FAILURE); when that scan failed, no BLOCK_OFF RPC was sent.  The
\* reported code is E_BLOCK_WRITE_FAILURE in both cases.
C6_BlockOnFailureUnblocksWhenScanned ==
    \A p \in BackupProcs :
        BlockOnFailed(p) =>
            /\ bk[p].code = "E_BLOCK_WRITE_FAILURE"
            /\ bk[p].ret \in {"SUCCEEDED", "E_BLOCK_WRITE_FAILURE"}
                  => SentTo(bk[p].trace, "BLOCK_OFF") = PartHolders(bk[p].spaces)
            /\ bk[p].ret \notin {"SUCCEEDED", "E_BLOCK_WRITE_FAILURE"}
                  => SentTo(bk[p].trace, "BLOCK_OFF") = {}

C6_Witness ==
    \E p \in BackupProcs :
        /\ BlockOnFailed(p)
        /\ <<1, 1>> \in FailedOn(bk[p].trace, "BLOCK_OFF")
        /\ SentTo(bk[p].trace, "BLOCK_OFF") = {<<1, 1>>, <<1, 2>>, <<2, 2>>}

(***************************************************************************)
(* C7: a snapshot record that is VALID is never INVALID later, and the     *)
(* only change of status a record undergoes is INVALID -> VALID: in the    *)
(* store from one state to the next, and in the order the engine applies   *)
(* the writes of a batch.                                                  *)
(***************************************************************************)
BackupNames == 1..(NumBackups + 1)

StatusOf(s, name) ==
    IF KvHas(s, SnapshotKey(name)) THEN s[SnapshotKey(name)].status ELSE "NONE"

StatusStep(old, new) ==
    \/ old = new
    \/ old = "NONE"
    \/ old = "INVALID" /\ new = "VALID"

LogSteps ==
    \A i, j \in 1..Len(snapLog) :
        (i < j /\ snapLog[i][1] = snapLog[j][1]) =>
            ~(snapLog[i][2] = "VALID" /\ snapLog[j][2] = "INVALID")

C8_ListedHostsHoldCheckpoint ==
    \A n \in BackupNames :
        IsValid(n) =>
            \A h \in store[SnapshotKey(n)].hosts : \E s \in SpaceIds : <<s, h, n>> \in cpDone

\* C8 as amended: for each VALID record, the checkpoints created for the backup name
\* are exactly those of the <<space, host>> pairs of the part table of the chosen
\* spaces; the record lists the active hosts, whether or not they hold such a part.
C8_PartHoldersHoldCheckpoint ==
    \A p \in BackupProcs :
        (Started(p) /\ IsValid(bk[p].name)) =>
            /\ \A t \in SpaceIds \X Hosts :
                  <<t[1], t[2], bk[p].name>> \in cpDone <=> t \in PartHolders(bk[p].spaces)
            /\ store[SnapshotKey(bk[p].name)].hosts = GetActiveHosts(store, clock)

C8_Witness ==
    \E p \in BackupProcs :
        /\ Started(p) /\ IsValid(bk[p].name)
        /\ bk[p].req # {}
        /\ \E h \in store[SnapshotKey(bk[p].name)].hosts :
              \A s \in SpaceIds : <<s, h>> \notin PartHolders(bk[p].spaces)

(***************************************************************************)
(* C9: after a successful DropSpace(name), with id the space id the name   *)
(* resolved to, no key remains under spaceKey(id), indexSpaceKey(name),    *)
(* partPrefix(id), roleSpacePrefix(id), listenerPrefix(id), statisKey(id). *)
(***************************************************************************)
Dropped(t) == dp[t].pc = "done" /\ dp[t].code = "SUCCEEDED" /\ dp[t].spaceId # 0

KeysOfSpace(s, name, id) ==
    {k \in DOMAIN s : \/ k = SpaceKey(id)
                      \/ k = IndexSpaceKey(name)
                      \/ k[1] \in {"part", "role", "listener", "statis"} /\ k[2] = id}

C9_DropRemovesEveryKey ==
    \A t \in DropProcs : Dropped(t) => KeysOfSpace(store, dp[t].name, dp[t].spaceId) = {}

(***************************************************************************)
(* C10: DropSpace never leaves a state in which one of                     *)
(* indexSpaceKey(name) and spaceKey(id) is removed and the other present.  *)
(***************************************************************************)
C10_IndexAndSpaceKeyTogether ==
    \A id \in SpaceIds :
        KvHas(store, IndexSpaceKey(SpaceNameOf[id])) <=> KvHas(store, SpaceKey(id))

C10_Witness ==
    \E t \in DropProcs :
        /\ Dropped(t)
        /\ ~KvHas(store, IndexSpaceKey(dp[t].name)) /\ ~KvHas(store, SpaceKey(dp[t].spaceId))
        /\ \E id \in SpaceIds : KvHas(store, SpaceKey(id))

(***************************************************************************)
(* C11: the stored lastUpdateTime never decreases: no later write puts it  *)
(* below the value a successful doSyncPutAndUpdate or                      *)
(* doSyncMultiRemoveAndUpdate left behind, and the value read right after  *)
(* such a call is at least the value read before it.                       *)
(***************************************************************************)
Bumped(t) ==
    op[t].pc = "done" /\ op[t].fn \in UpdateFns /\ op[t].code = "SUCCEEDED"

UpdateDone(t) == op[t].pc = "done" /\ op[t].fn \in UpdateFns

ReportsWriteOrBump ==
    \A t \in OpThreads :
        UpdateDone(t) =>
            /\ op[t].wrote # "SUCCEEDED"
                  => op[t].bump = "NONE" /\ op[t].code = MetaCommonTo(op[t].wrote)
            /\ op[t].wrote = "SUCCEEDED"
                  => op[t].bump # "NONE" /\ op[t].code = MetaCommonTo(op[t].bump)

FailureLeavesStore ==
    \A t \in OpThreads :
        (op[t].pc \in {"wait", "update"} /\ UpdateDone(t)' /\ op'[t].code # "SUCCEEDED")
            => store' = store

C19_WriteAndBumpErrors == []ReportsWriteOrBump /\ [][FailureLeavesStore]_vars

C19_Witness ==
    \E t \in OpThreads :
        /\ UpdateDone(t) /\ op[t].fn = "doSyncPutAndUpdate"
        /\ op[t].wrote = "SUCCEEDED" /\ op[t].bump = "ERR_LEADER_CHANGED"
        /\ op[t].code = "E_LEADER_CHANGED"
        /\ KvHas(store, DataKey(3)) /\ LastUpdateTime(store) = 0

(***************************************************************************)
(* C12: every processor that completes successfully after mutating the     *)
(* meta store (DropSpace removing a space's keys, CreateBackup committing  *)
(* its snapshot record, ListHosts removing expired host records) has       *)
(* written lastUpdateTime after its data write committed and before its    *)
(* completion hook fired.                                                  *)
(***************************************************************************)
Succeeded(r) == r.pc = "done" /\ r.fin > 0 /\ r.code = "SUCCEEDED"

CommitOk(p) ==
    \E i \in 1..Len(bk[p].trace) : bk[p].trace[i].kind = "COMMIT" /\ bk[p].trace[i].ok

\* The statement as the specification makes it: after a successful mutating
\* DropSpace, CreateBackup or ListHosts the store holds a lastUpdateTime.
C12_EveryMutatorBumps ==
    /\ \A t \in DOMAIN dp :
         Succeeded(dp[t]) /\ dp[t].wrote = "SUCCEEDED" => KvHas(store, kLastUpdateTimeKey)
    /\ \A p \in DOMAIN bk :
         Succeeded(bk[p]) /\ CommitOk(p) => KvHas(store, kLastUpdateTimeKey)
    /\ \A t \in DOMAIN lh :
         Succeeded(lh[t]) /\ lh[t].wrote = "SUCCEEDED" => KvHas(store, kLastUpdateTimeKey)

DropBumps(t) == dp[t].bump = "NONE" /\ dp'[t].bump = "SUCCEEDED"
OpBumps(t)   == op[t].bump = "NONE" /\ op'[t].bump = "SUCCEEDED"

\* A DropSpace that succeeded after its remove committed has written lastUpdateTime.
DropBumped ==
    \A t \in DOMAIN dp :
        Succeeded(dp[t]) /\ dp[t].wrote = "SUCCEEDED" =>
            dp[t].bump = "SUCCEEDED" /\ KvHas(store, kLastUpdateTimeKey)

\* DropSpace writes lastUpdateTime when its remove has been applied and its hook has
\* not fired; a step that changes lastUpdateTime is such a step, or the update of a
\* doSync*AndUpdate caller: no step of CreateBackup or ListHosts writes it.
BumpAfterDataWrite ==
    /\ \A t \in DOMAIN dp :
         DropBumps(t) => /\ inflight[t] = NoWrite
                         /\ dp'[t].wrote = "SUCCEEDED"
                         /\ dp[t].deleteKeys \cap DOMAIN store = {}
                         /\ dp[t].fin = 0
                         /\ KvHas(store', kLastUpdateTimeKey)
    /\ LastUpdateTime(store') # LastUpdateTime(store) =>
         \/ \E t \in DOMAIN dp : DropBumps(t)
         \/ \E t \in DOMAIN op : OpBumps(t)

\* C12, as the code has it: of the three processors only DropSpace, which ends in
\* doSyncMultiRemoveAndUpdate, writes lastUpdateTime: after its remove committed and
\* before its hook fires.  CreateBackup (doSyncPut) and ListHosts (asyncMultiRemove)
\* complete without writing it.
C12_OnlyDropSpaceBumps == []DropBumped /\ [][BumpAfterDataWrite]_vars

C12_Witness ==
    /\ \E t \in DOMAIN dp : Succeeded(dp[t]) /\ dp[t].bump = "SUCCEEDED"
    /\ \E p \in DOMAIN bk : Succeeded(bk[p]) /\ CommitOk(p)
    /\ \E t \in DOMAIN lh : Succeeded(lh[t]) /\ lh[t].wrote = "SUCCEEDED"

(***************************************************************************)
(* C13: for DropSpace, CreateBackup and ListHosts, and for doPut,          *)
(* doRemove, doMultiRemove, doRemoveRange, doSyncPutAndUpdate and          *)
(* doSyncMultiRemoveAndUpdate, onFinished fires exactly once on every      *)
(* path, success or error, with the error code recorded before it fires;   *)
(* doSyncPut never fires it.                                               *)
(***************************************************************************)
HookFns == CallbackFns \cup UpdateFns

FiredOnce ==
    /\ \A t \in DOMAIN dp : /\ dp[t].fin = (IF dp[t].pc = "done" THEN 1 ELSE 0)
                            /\ dp[t].fin = 1 => dp[t].code # "NONE"
    /\ \A p \in DOMAIN bk : /\ bk[p].fin = (IF bk[p].pc = "done" THEN 1 ELSE 0)
                            /\ bk[p].fin = 1 => bk[p].code # "NONE"
    /\ \A t \in DOMAIN lh : /\ lh[t].fin = (IF lh[t].pc = "done" THEN 1 ELSE 0)
                            /\ lh[t].fin = 1 => lh[t].code # "NONE"
    /\ \A t \in DOMAIN op :
         /\ op[t].fn \in HookFns => /\ op[t].fin = (IF op[t].pc = "done" THEN 1 ELSE 0)
                                    /\ op[t].fin = 1 => op[t].code # "NONE"
         /\ op[t].fn = "doSyncPut" => op[t].fin = 0

\* Once the hook has fired, neither the code nor the count changes.
FiredIsFinal ==
    /\ \A t \in DOMAIN dp : dp[t].fin = 1 => dp'[t].fin = 1 /\ dp'[t].code = dp[t].code
    /\ \A p \in DOMAIN bk : bk[p].fin = 1 => bk'[p].fin = 1 /\ bk'[p].code = bk[p].code
    /\ \A t \in DOMAIN lh : lh[t].fin = 1 => lh'[t].fin = 1 /\ lh'[t].code = lh[t].code
    /\ \A t \in DOMAIN op : op[t].fin = 1 => op'[t].fin = 1 /\ op'[t].code = op[t].code

C13_HookFiresOnce == []FiredOnce /\ [][FiredIsFinal]_vars

C13_Witness ==
    /\ \E t \in DOMAIN dp : dp[t].pc = "done" /\ dp[t].code = "E_NOT_FOUND"
    /\ \E t \in DOMAIN op : /\ op[t].pc = "done" /\ op[t].fn \in CallbackFns
                            /\ op[t].code = "E_LEADER_CHANGED" /\ op[t].fin = 1


(***************************************************************************)
(* C14: no set of concurrently running processors can deadlock on the      *)
(* named locks: no thread requests the snapshot lock while holding the     *)
(* space lock, and no thread requests any other lock while holding the id  *)
(* lock.                                                                   *)
(***************************************************************************)
LockThreads == DOMAIN inflight

NoLock == <<"none", "none">>

\* The lock, and the mode, the next statement of thread t constructs a holder for.
Wants(t) ==
    IF t \in DOMAIN bk
    THEN CASE bk[t].pc = "lock" -> <<"snapshot", "w">>
           [] bk[t].pc \in {"rebuilding", "spaces", "blockOn", "snapshot", "unblock",
                            "blockOff"} -> <<"space", "r">>
           [] OTHER -> NoLock
    ELSE IF t \in DOMAIN dp
    THEN CASE dp[t].pc = "start" -> <<"snapshot", "r">>
           [] dp[t].pc = "lockSpace" -> <<"space", "w">>
           [] OTHER -> NoLock
    ELSE IF t \in DOMAIN lh
    THEN IF lh[t].pc = "start" THEN <<"space", "r">> ELSE NoLock
    ELSE IF t \in DOMAIN idPc
    THEN IF idPc[t] = "start" THEN <<"id", "w">> ELSE NoLock
    ELSE IF t \in DOMAIN op /\ op[t].pc = "lock"
    THEN <<ExistLockOf(op[t].fn), "r">>
    ELSE NoLock

Holds(t) == {l \in LockNames : t \in locks[l].w \cup locks[l].r}

\* The threads that keep t's request from being granted: the holders it conflicts
\* with and, for a reader, the writers waiting for the same lock, which
\* folly::SharedMutex prefers to new readers.
Blockers(t) ==
    IF Wants(t) = NoLock THEN {}
    ELSE IF Wants(t)[2] = "w"
         THEN (locks[Wants(t)[1]].w \cup locks[Wants(t)[1]].r) \ {t}
         ELSE (locks[Wants(t)[1]].w
                  \cup {u \in LockThreads : Wants(u) = <<Wants(t)[1], "w">>}) \ {t}

LockOrder ==
    \A t \in LockThreads :
        /\ Wants(t)[1] = "snapshot" => "space" \notin Holds(t)
        /\ "id" \in Holds(t) => Wants(t) = NoLock

\* No set of threads in which every thread waits for a lock a member of the set holds.
NoWaitCycle ==
    \A S \in (SUBSET LockThreads) \ {{}} : \E t \in S : Blockers(t) \cap S = {}

C14_NoLockDeadlock == LockOrder /\ NoWaitCycle

C14_Witness ==
    \E b \in DOMAIN bk, d \in DOMAIN dp, l \in DOMAIN lh :
        /\ Wants(b) = <<"snapshot", "w">> /\ d \in Blockers(b)
        /\ Wants(d) = <<"space", "w">> /\ l \in Blockers(d)

(***************************************************************************)
(* C15: CreateBackup rejects, in this order of precedence: not leader of   *)
(* the meta partition -> E_LEADER_CHANGED; a rebuild-index status equal to *)
(* "RUNNING" -> E_BACKUP_BUILDING_INDEX; no active host -> E_NO_HOSTS; no  *)
(* resolved space -> E_BACKUP_SPACE_NOT_FOUND; on each of these rejections *)
(* no RPC has been sent and no snapshot record has been written.           *)
(***************************************************************************)
ReadErrors == {MetaCommonTo(e) : e \in KvErrors \cup {"ERR_PARTIAL_RESULT"}}

RejectCodes == {"E_LEADER_CHANGED", "E_BACKUP_BUILDING_INDEX", "E_NO_HOSTS",
                "E_BACKUP_SPACE_NOT_FOUND"}

NoSpaces == KvPrefix(store, "space") = {}

SomeRunning == \E k \in DOMAIN store : k[1] = "rebuild" /\ store[k] = "RUNNING"

\* Nothing of the protocol has happened for p: no RPC, no name, no record.
NothingDone(b, p) ==
    /\ b.trace = <<>> /\ b.name = 0 /\ b.data = <<>>
    /\ inflight'[p] = NoWrite
    /\ \A i \in 1..Len(snapLog') : i <= Len(snapLog)

\* The checks in the order the processor makes them.  A failed read ends the request
\* with the read's error; otherwise each check rejects exactly when its condition
\* holds, whatever the later conditions are.
RejectInOrder(p) ==
    /\ bk[p].pc = "start" /\ bk'[p].pc = "done" => bk'[p].code = "E_LEADER_CHANGED"
    /\ bk[p].pc = "rebuilding" /\ bk'[p].pc # "rebuilding" =>
         IF SomeRunning
         THEN bk'[p].pc = "done" /\ bk'[p].code \in {"E_BACKUP_BUILDING_INDEX"} \cup ReadErrors
         ELSE bk'[p].pc = "lock" \/ (bk'[p].pc = "done" /\ bk'[p].code \in ReadErrors)
    /\ bk[p].pc = "hosts" /\ bk'[p].pc # "hosts" =>
         IF GetActiveHosts(store, clock) = {}
         THEN bk'[p].pc = "done" /\ bk'[p].code \in {"E_NO_HOSTS"} \cup ReadErrors
         ELSE bk'[p].pc = "spaces" \/ (bk'[p].pc = "done" /\ bk'[p].code \in ReadErrors)
    /\ bk[p].pc = "spaces" /\ bk'[p].pc # "spaces" =>
         IF NoSpaces
         THEN bk'[p].pc = "done" /\ bk'[p].code \in {"E_BACKUP_SPACE_NOT_FOUND"} \cup ReadErrors
         ELSE bk'[p].pc = "prepare" \/ (bk'[p].pc = "done" /\ bk'[p].code \in ReadErrors)
    /\ bk[p].pc \in {"start", "rebuilding", "hosts", "spaces"} /\ bk'[p].pc = "done" =>
         NothingDone(bk'[p], p) /\ store' = store /\ bk'[p].fin = 1

\* A request that ended with one of the codes passed every earlier check.
RejectedFor ==
    \A p \in BackupProcs :
        bk[p].pc = "done" /\ bk[p].trace = <<>> =>
            /\ bk[p].code \in RejectCodes \cup ReadErrors
            /\ bk[p].code = "E_BACKUP_BUILDING_INDEX" => SomeRunning
            /\ bk[p].code = "E_NO_HOSTS" =>
                 ~SomeRunning /\ GetActiveHosts(store, clock) = {}
            /\ bk[p].code = "E_BACKUP_SPACE_NOT_FOUND" =>
                 /\ ~SomeRunning /\ GetActiveHosts(store, clock) # {}
                 /\ NoSpaces

C15_RejectionPrecedence ==
    []RejectedFor /\ [][\A p \in BackupProcs : RejectInOrder(p)]_vars

\* A request rejected for its first failing check while a later check would fail too.
C15_Witness ==
    \E p \in BackupProcs :
        /\ bk[p].pc = "done" /\ bk[p].code = "E_NO_HOSTS" /\ NoSpaces
        /\ bk[p].trace = <<>> /\ snapLog = <<>>

(***************************************************************************)
(* C16: Snapshot::createSnapshot is best-effort per host: when the         *)
(* createSnapshot RPC fails on one (space, host), the RPC is still issued  *)
(* to every other (space, host) pair of the part table.                    *)
(***************************************************************************)
\* The statement as the specification makes it.
C16_SnapshotFailureDoesNotAbort ==
    \A p \in BackupProcs :
        FailedOn(bk[p].trace, "SNAPSHOT") # {} =>
            SentTo(bk[p].trace, "SNAPSHOT") = PartHolders(bk[p].spaces)

\* C16, as the code has it: createSnapshot returns E_RPC_FAILURE at the first RPC that
\* fails.  The pairs are visited in the order of the map of spaces to host sets; the
\* pairs after the failing one are sent nothing, and the request ends with
\* E_RPC_FAILURE and no VALID record.
C16_SnapshotStopsAtFirstFailure ==
    \A p \in BackupProcs :
        LET F    == FailedOn(bk[p].trace, "SNAPSHOT")
            sent == SentTo(bk[p].trace, "SNAPSHOT")
        IN  F # {} =>
              /\ Cardinality(F) = 1
              /\ \A f \in F :
                   sent = {t \in PartHolders(bk[p].spaces) : t = f \/ PairLess(t, f)}
              /\ OkOn(bk[p].trace, "SNAPSHOT") = sent \ F
              /\ bk[p].code = "E_RPC_FAILURE"
              /\ ~IsValid(bk[p].name)

C16_Witness ==
    \E p \in BackupProcs :
        /\ FailedOn(bk[p].trace, "SNAPSHOT") # {}
        /\ OkOn(bk[p].trace, "SNAPSHOT") # {}
        /\ SentTo(bk[p].trace, "SNAPSHOT") # PartHolders(bk[p].spaces)
        /\ bk[p].pc = "done"

(***************************************************************************)
(* C17: Snapshot::dropSnapshot(name, hosts) issues the drop RPC to exactly *)
(* the (space, host) pairs of the part table whose host is in the given    *)
(* list, continues after individual RPC failures, and returns SUCCEEDED    *)
(* whenever the host enumeration succeeded, even if every drop RPC failed; *)
(* it returns an error only when the enumeration fails (E_LEADER_CHANGED   *)
(* kept, every other error mapped to E_STORE_FAILURE).                     *)
(***************************************************************************)
PartPairs == {t \in SpaceIds \X Hosts :
                 \E k \in DOMAIN store : k[1] = "part" /\ k[2] = t[1] /\ t[2] \in store[k]}

EnumerationError ==
    IF call.kv = "ERR_LEADER_CHANGED" THEN "E_LEADER_CHANGED" ELSE "E_STORE_FAILURE"

\* What dropSnapshot does given the pairs T it is to reach.
DropsExactly(T) ==
    IF call.kv # "SUCCEEDED" THEN call.sent = <<>> /\ call.ret = EnumerationError
    ELSE /\ call.ret = "SUCCEEDED"
         /\ SentTo(call.sent, "DROP") = T
         /\ Len(call.sent) = Cardinality(T)
         /\ FailedOn(call.sent, "DROP") = T \cap call.fails

\* The statement as the specification makes it: the pairs of the whole part table.
C17_DropsOnListedHostsOfPartTable ==
    call.pc = "done" => DropsExactly({t \in PartPairs : t[2] \in call.hosts})

\* C17, as the code has it: the pairs are those getSpacesHosts() enumerates, which are
\* the pairs of the part table of the spaces in Snapshot::spaces_ when that set is not
\* empty, and of every space when it is.
C17_DropsOnListedHostsOfEnumeration ==
    call.pc = "done" =>
        DropsExactly({t \in PartPairs : /\ t[2] \in call.hosts
                                        /\ (snapSpaces = {} \/ t[1] \in snapSpaces)})

C17_Witness ==
    /\ call.pc = "done" /\ call.kv = "SUCCEEDED" /\ call.ret = "SUCCEEDED"
    /\ Len(call.sent) >= 2
    /\ \A i \in 1..Len(call.sent) : ~call.sent[i].ok
    /\ \E t \in PartPairs : t[2] \notin call.hosts

(***************************************************************************)
(* C18: every write a processor issues to the KV engine blocks the issuing *)
(* thread until the engine's callback has fired: the issuing operation     *)
(* never returns, and the processor's completion hook never fires, while a *)
(* write callback of that processor is still pending.                      *)
(***************************************************************************)
PcOf(t) ==
    IF t \in DOMAIN dp THEN dp[t].pc ELSE IF t \in DOMAIN bk THEN bk[t].pc
    ELSE IF t \in DOMAIN lh THEN lh[t].pc ELSE IF t \in DOMAIN op THEN op[t].pc
    ELSE idPc[t]

FinOf(t) ==
    IF t \in DOMAIN dp THEN dp[t].fin ELSE IF t \in DOMAIN bk THEN bk[t].fin
    ELSE IF t \in DOMAIN lh THEN lh[t].fin ELSE IF t \in DOMAIN op THEN op[t].fin
    ELSE 0

WaitPcs == {"removeWait", "commitWait", "wait"}

\* While a write of t is with the engine, t stands at its baton.wait(), no callback of
\* it has been delivered and its hook has not fired.
Waits(t) ==
    inflight[t] # NoWrite =>
        /\ PcOf(t) \in WaitPcs /\ FinOf(t) = 0
        /\ baton[t] = <<>> /\ Len(inflight[t]) = 1

\* The statement as the specification makes it: every thread that issues a write.
C18_EveryWriteBlocks == \A t \in DOMAIN inflight : Waits(t)

\* C18, as the code has it: the writes of the composite operations, of doSyncPut and
\* of autoIncrementId, and so of DropSpace and CreateBackup, block the caller.  The
\* remove that ListHosts issues for expired hosts is not waited for: the processor
\* goes on, and completes, with the write pending.
C18_BatonWritesBlock == \A t \in (DOMAIN inflight) \ (DOMAIN lh) : Waits(t)

C18_Witness ==
    /\ \E t \in DOMAIN lh : lh[t].pc = "done" /\ lh[t].fin = 1 /\ inflight[t] # NoWrite
    /\ \E t \in DOMAIN op : op[t].pc = "wait" /\ inflight[t] # NoWrite

(***************************************************************************)
(* C20: DropSpace on a space name that does not exist completes with       *)
(* SUCCEEDED when if_exists is set and with E_NOT_FOUND otherwise; in both *)
(* cases, and whenever getSpaceId or a prefix scan returns an error, no    *)
(* key is removed and lastUpdateTime is not bumped.                        *)
(***************************************************************************)
\* The step in which getSpaceId returns: for a name without index key the request
\* ends with the code if_exists selects, or with the error of the read.
MissingNameCode(t) ==
    dp[t].pc = "getSpaceId" /\ dp'[t].pc # "getSpaceId" =>
        IF ~KvHas(store, IndexSpaceKey(dp'[t].name))
        THEN /\ dp'[t].pc = "done"
             /\ dp'[t].code \in {IF dp'[t].ifExists THEN "SUCCEEDED" ELSE "E_NOT_FOUND"}
                                    \cup ReadErrors
        ELSE dp'[t].pc = "collect" \/ (dp'[t].pc = "done" /\ dp'[t].code \in ReadErrors)

\* A request that ends at getSpaceId or at a scan has issued no write: the store is as
\* it was, nothing is in flight, and lastUpdateTime is untouched.
EndsWithoutWrite(t) ==
    dp[t].pc \in {"getSpaceId", "collect"} /\ dp'[t].pc = "done" =>
        /\ store' = store /\ inflight'[t] = NoWrite /\ baton'[t] = <<>>
        /\ dp'[t].deleteKeys = {} /\ dp'[t].wrote = "NONE" /\ dp'[t].bump = "NONE"
        /\ dp'[t].fin = 1

C20_MissingSpaceRemovesNothing ==
    [][\A t \in DropProcs : MissingNameCode(t) /\ EndsWithoutWrite(t)]_vars

C20_Witness ==
    \E t, u \in DropProcs :
        /\ dp[t].pc = "done" /\ dp[t].name = "s3" /\ dp[t].ifExists
        /\ dp[t].code = "SUCCEEDED"
        /\ dp[u].pc = "done" /\ dp[u].name = "s3" /\ ~dp[u].ifExists
        /\ dp[u].code = "E_NOT_FOUND"
        /\ ~KvHas(store, kLastUpdateTimeKey)
        /\ \A i \in 1..Len(SpaceRecords) : KvHas(store, SpaceRecords[i][1])
(***************************************************************************)
(* C21: when the counter key is absent (or holds 0) before the calls, the   *)
(* first id returned is 1 and no returned id is smaller; and whenever no   *)
(* call is between its read and its return and some call has returned an   *)
(* id, the value stored under "__id__" is the largest id returned so far.  *)
(***************************************************************************)
IdReturned == {idRet[t].id : t \in {u \in IdThreads : idPc[u] = "done" /\ idRet[u].ok}}

IdQuiet == \A t \in IdThreads : idPc[t] \in {"start", "done"}

C21_CounterIsLargestReturned ==
    /\ (initId = 0 /\ IdReturned # {}) =>
            1 \in IdReturned /\ \A i \in IdReturned : i >= 1
    /\ (IdQuiet /\ IdReturned # {}) =>
            /\ KvHas(store, kIdKey)
            /\ store[kIdKey] \in IdReturned
            /\ \A i \in IdReturned : i <= store[kIdKey]

C21_Witness ==
    /\ initId = 0
    /\ IdQuiet
    /\ Cardinality(IdReturned) = NumCallers
    /\ store[kIdKey] = NumCallers

(***************************************************************************)
(* C22: for every host record, now and flag setting, a host of the role    *)
(* asked for is listed ONLINE iff its age is below heartbeat_interval *    *)
(* expired_time_factor * 1000, listed OFFLINE iff its age is at least that *)
(* and below removed_threshold_sec * 1000, and removed iff its age is at   *)
(* least removed_threshold_sec * 1000; a host of another role is skipped.  *)
(***************************************************************************)
HostAge == call.now - call.info.lastHB

\* age < sec * 1000 over the integers, without forming the product.
AgeBelowSecs(age, sec) == age \div 1000 < sec

C22_ClassifiedByAgeAlone ==
    call.pc = "done" =>
        LET expired == call.flags.heartbeat_interval_secs * call.flags.expired_time_factor
            removed == call.flags.removed_threshold_sec
        IN  IF call.info.role # call.type THEN call.ret = "SKIPPED"
            ELSE /\ call.ret = "ONLINE" <=> AgeBelowSecs(HostAge, expired)
                 /\ call.ret = "OFFLINE" <=>
                        ~AgeBelowSecs(HostAge, expired) /\ AgeBelowSecs(HostAge, removed)
                 /\ call.ret = "REMOVED" <=> ~AgeBelowSecs(HostAge, removed)

(***************************************************************************)
(* C23: in a ListHosts(ALLOC) response every entry of a host's             *)
(* leader_parts comes from a leader record whose code is SUCCEEDED and     *)
(* whose host is that host, a storage host with a recent heartbeat that is *)
(* among the listed items; a leader record whose host is inactive or not   *)
(* listed adds nothing to any host's leader_parts.                         *)
(***************************************************************************)
RecentHeartbeat(h) ==
    /\ KvHas(store, HostKey(h))
    /\ store[HostKey(h)].role = "STORAGE"
    /\ clock - store[HostKey(h)].lastHB
           < HeartbeatIntervalSecs * ExpiredTimeFactor * 1000

LeaderKeys == {k \in DOMAIN store : k[1] = "leader"}

\* The response entry a leader record stands for.
LeaderEntry(l, k) ==
    <<IF k[2] \in DOMAIN l.spaceIdNameMap THEN l.spaceIdNameMap[k[2]] ELSE "", k[3]>>

AllocResponses ==
    {t \in DOMAIN lh : lh[t].type = "ALLOC" /\ lh[t].pc \in {"parts", "done"}
                           /\ lh[t].code \in {"NONE", "SUCCEEDED"}}

C23_LeaderPartsOfActiveListedHosts ==
    \A t \in AllocResponses :
        /\ \A h \in DOMAIN lh[t].hostItems :
             \A e \in lh[t].hostItems[h].leader_parts :
                \E k \in LeaderKeys :
                    /\ LeaderEntry(lh[t], k) = e
                    /\ store[k].code = "SUCCEEDED"
                    /\ store[k].host = h
                    /\ RecentHeartbeat(h)
        /\ \A k \in LeaderKeys :
             (~RecentHeartbeat(store[k].host) \/ store[k].host \notin DOMAIN lh[t].hostItems)
                 => \A h \in DOMAIN lh[t].hostItems :
                        LeaderEntry(lh[t], k) \notin lh[t].hostItems[h].leader_parts

\* A response in which the fresh host 1 leads a part while the records of the
\* expired but listed host 2 and of the graph host 3 are in the store.
C23_Witness ==
    \E t \in AllocResponses :
        /\ lh[t].pc = "done"
        /\ 1 \in DOMAIN lh[t].hostItems /\ lh[t].hostItems[1].leader_parts # {}
        /\ 2 \in DOMAIN lh[t].hostItems /\ ~RecentHeartbeat(2)
        /\ {LeaderKey(1, 2), LeaderKey(2, 1), LeaderKey(2, 2)} \subseteq LeaderKeys

(***************************************************************************)
(* C24: indexCheck returns SUCCEEDED iff no alter item whose op is CHANGE  *)
(* or DROP names a column that is a field of an existing index, and        *)
(* E_CONFLICT otherwise; ADD items never cause a conflict.                 *)
(***************************************************************************)
Range(f) == {f[i] : i \in DOMAIN f}

IndexedColumns(items) == UNION {Range(fs) : fs \in Range(items)}

AlteredColumns(alterItems) ==
    UNION {Range(a.columns) : a \in {x \in Range(alterItems) : x.op \in {"CHANGE", "DROP"}}}

IndexCheckDone == call.pc = "done" /\ call.fn = "indexCheck"

C24_ConflictIffIndexedColumnAltered ==
    IndexCheckDone =>
        /\ call.ret \in {"SUCCEEDED", "E_CONFLICT"}
        /\ call.ret = "SUCCEEDED" <=>
               IndexedColumns(call.items) \cap AlteredColumns(call.alterItems) = {}
        /\ (\A a \in Range(call.alterItems) : a.op = "ADD") => call.ret = "SUCCEEDED"

\* An ADD of an indexed column passes, next to a DROP of another column.
C24_Witness ==
    /\ IndexCheckDone
    /\ call.ret = "SUCCEEDED"
    /\ \E a \in Range(call.alterItems) :
         a.op = "ADD" /\ Range(a.columns) \cap IndexedColumns(call.items) # {}
    /\ \E a \in Range(call.alterItems) : a.op = "DROP" /\ a.columns # <<>>

(***************************************************************************)
(* C25: checkIndexExist(fields, item) returns true when fields is empty;   *)
(* for non-empty fields it returns true iff at every position of fields    *)
(* the name equals the name at that position of item's fields; in every    *)
(* other case it returns false.                                            *)
(***************************************************************************)
C25_TrueIffPositionsMatch ==
    (call.pc = "done" /\ call.fn = "checkIndexExist") =>
        IF \/ call.fields = <<>>
           \/ \A i \in 1..Len(call.fields) :
                 i <= Len(call.item) /\ call.fields[i] = call.item[i]
        THEN call.ret = "true"
        ELSE call.ret = "false"

(***************************************************************************)
(* Vocabulary of the lookup claims: a successfully built plan, the output  *)
(* node of the i-th context, and the chain of node classes below a node.   *)
(***************************************************************************)
Planned == call.pc = "planned" /\ call.fn = "lookup"

PlanBuilt == Planned /\ call.status = "OK"

OutputNodes(nodes) == {j \in 1..Len(nodes) : nodes[j].kind = "IndexOutputNode"}

NthOutput(nodes, i) ==
    CHOOSE j \in OutputNodes(nodes) :
        Cardinality({k \in OutputNodes(nodes) : k <= j}) = i

RECURSIVE ChainTo(_, _)
ChainTo(nodes, j) ==
    IF nodes[j].deps = {} THEN <<nodes[j].kind>>
    ELSE ChainTo(nodes, CHOOSE d \in nodes[j].deps : TRUE) \o <<nodes[j].kind>>

ChainOfContext(i) == ChainTo(call.plan, NthOutput(call.plan, i))

IndexFieldsOf(ctx) ==
    IF call.req.is_edge THEN call.env.edgeIndex[ctx.index_id]
    ELSE call.env.tagIndex[ctx.index_id]

CarriesFilter(ctx) == ctx.filter.is_set /\ ctx.filter.value # <<>>

(***************************************************************************)
(* C26: in a built plan the chain of every context is Scan, then a Fetch   *)
(* iff needData, then a Filter iff needFilter, then Output, where needData *)
(* holds iff some return column is neither a key-kind column nor an index  *)
(* field or isOutsideIndex(filter, index) holds, needFilter holds iff the  *)
(* context carries a non-empty filter, and the Fetch is the edge node for  *)
(* an edge request and the vertex node otherwise.                          *)
(***************************************************************************)
NeedsData(ctx) ==
    \/ \E i \in 1..Len(call.req.return_columns.value) :
          LET col == call.req.return_columns.value[i]
          IN  /\ col \notin {"_vid", "_tag", "_src", "_type", "_rank", "_dst"}
              /\ \A k \in 1..Len(IndexFieldsOf(ctx)) : IndexFieldsOf(ctx)[k] # col
    \/ CarriesFilter(ctx) /\ IsOutsideIndex(ctx.filter.value[1], IndexFieldsOf(ctx))

ShapeOf(needData, needFilter) ==
    <<"IndexScanNode">>
        \o (IF needData
            THEN <<IF call.req.is_edge THEN "IndexEdgeNode" ELSE "IndexVertexNode">>
            ELSE <<>>)
        \o (IF needFilter THEN <<"IndexFilterNode">> ELSE <<>>)
        \o <<"IndexOutputNode">>

C26_ShapeFromNeedDataNeedFilter ==
    PlanBuilt =>
        /\ Cardinality(OutputNodes(call.plan)) = Len(call.req.contexts)
        /\ \A i \in 1..Len(call.req.contexts) :
             ChainOfContext(i) =
                 ShapeOf(NeedsData(call.req.contexts[i]), CarriesFilter(call.req.contexts[i]))

\* An edge request whose two contexts get the shapes (T, T) and (F, F).
C26_Witness ==
    /\ PlanBuilt
    /\ call.req.is_edge
    /\ Len(call.req.contexts) = 2
    /\ ChainOfContext(1) = <<"IndexScanNode", "IndexEdgeNode", "IndexFilterNode",
                             "IndexOutputNode">>
    /\ ChainOfContext(2) = <<"IndexScanNode", "IndexOutputNode">>

(***************************************************************************)
(* C27: with Tag(c1, c2, c3) and an index on (c1, c2), the chain of a      *)
(* context is Scan, VertexFetch, Output for filter c1 == 1 AND c2 == 1     *)
(* yielding c3; Scan, VertexFetch, Filter, Output for filter c1 == 1 AND   *)
(* c2 == 1 AND c3 > 1 yielding c3; Scan, Filter, Output for filter c1 > 1  *)
(* AND c2 > 1 yielding (c1, c2); Scan, Output for filter c1 == 1 AND       *)
(* c2 == 1 yielding (c1, c2).                                              *)
(***************************************************************************)
TagContext(i, filter, yield) ==
    /\ PlanBuilt
    /\ ~call.req.is_edge
    /\ i \in 1..Len(call.req.contexts)
    /\ call.req.contexts[i].filter = filter
    /\ call.req.return_columns.value = yield

Carried(e) == [is_set |-> TRUE, value |-> <<e>>]

NotCarried == [is_set |-> FALSE, value |-> <<>>]

C27_ExamplesAsFilters ==
    \A i \in 1..2 :
        /\ TagContext(i, Carried(FilterEq12), <<"c3">>) =>
               ChainOfContext(i) = <<"IndexScanNode", "IndexVertexNode", "IndexOutputNode">>
        /\ TagContext(i, Carried(FilterEq12Gt3), <<"c3">>) =>
               ChainOfContext(i) = <<"IndexScanNode", "IndexVertexNode", "IndexFilterNode",
                                     "IndexOutputNode">>
        /\ TagContext(i, Carried(FilterGt12), <<"c1", "c2">>) =>
               ChainOfContext(i) = <<"IndexScanNode", "IndexFilterNode", "IndexOutputNode">>
        /\ TagContext(i, Carried(FilterEq12), <<"c1", "c2">>) =>
               ChainOfContext(i) = <<"IndexScanNode", "IndexOutputNode">>

\* The same examples as the code treats them: the two shapes without a Filter node
\* are those of a context that carries no filter; a carried filter is always applied.
C27_ExamplesWithCarriedFilterApplied ==
    \A i \in 1..2 :
        /\ TagContext(i, NotCarried, <<"c3">>) =>
               ChainOfContext(i) = <<"IndexScanNode", "IndexVertexNode", "IndexOutputNode">>
        /\ TagContext(i, NotCarried, <<"c1", "c2">>) =>
               ChainOfContext(i) = <<"IndexScanNode", "IndexOutputNode">>
        /\ TagContext(i, Carried(FilterEq12), <<"c3">>) =>
               ChainOfContext(i) = <<"IndexScanNode", "IndexVertexNode", "IndexFilterNode",
                                     "IndexOutputNode">>
        /\ TagContext(i, Carried(FilterEq12Gt3), <<"c3">>) =>
               ChainOfContext(i) = <<"IndexScanNode", "IndexVertexNode", "IndexFilterNode",
                                     "IndexOutputNode">>
        /\ TagContext(i, Carried(FilterGt12), <<"c1", "c2">>) =>
               ChainOfContext(i) = <<"IndexScanNode", "IndexFilterNode", "IndexOutputNode">>
        /\ TagContext(i, Carried(FilterEq12), <<"c1", "c2">>) =>
               ChainOfContext(i) = <<"IndexScanNode", "IndexFilterNode", "IndexOutputNode">>

C27_Witness ==
    /\ TagContext(1, Carried(FilterEq12), <<"c3">>)
    /\ TagContext(2, NotCarried, <<"c3">>)

(***************************************************************************)
(* C28: when isOutsideIndex(e, idx) returns false, every property          *)
(* referenced anywhere in e, also below an arithmetic, unary or            *)
(* function-call node, is an edge-key property or a field of idx.          *)
(***************************************************************************)
RECURSIVE PropsReferenced(_)
PropsReferenced(e) ==
    (IF e.prop = "" THEN {} ELSE {e.prop})
        \cup UNION {PropsReferenced(e.args[i]) : i \in 1..Len(e.args)}

C28_InsideMeansEveryPropIndexed ==
    (call.pc = "done" /\ call.fn = "isOutsideIndex" /\ call.ret = "false") =>
        \A p \in PropsReferenced(call.filter) :
            \/ p \in {"_src", "_type", "_rank", "_dst"}
            \/ \E k \in 1..Len(call.fields) : call.fields[k] = p

(***************************************************************************)
(* C29: requestCheck returns E_TAG_NOT_FOUND (vertex request) or           *)
(* E_EDGE_NOT_FOUND (edge request) when the id has no name or no schema    *)
(* versions, E_INVALID_OPERATION when the contexts are empty or the return *)
(* columns are absent or empty, the schema error when both hold; and when  *)
(* it returns SUCCEEDED the contexts and return columns are non-empty and  *)
(* the plan context holds the latest schema version.                       *)
(***************************************************************************)
Checked == call.fn = "lookup" /\ call.pc \in {"done", "checked"}

SchemaDefect ==
    ~call.env.name \/ ~call.env.allVer.ok \/ call.env.allVer.versions = <<>>

EmptinessDefect ==
    \/ call.req.contexts = <<>>
    \/ ~call.req.return_columns.is_set
    \/ call.req.return_columns.value = <<>>

SchemaError == IF call.req.is_edge THEN "E_EDGE_NOT_FOUND" ELSE "E_TAG_NOT_FOUND"

RejectsAsClaimed ==
    /\ SchemaDefect => call.ret = SchemaError
    /\ (~SchemaDefect /\ EmptinessDefect) => call.ret = "E_INVALID_OPERATION"
    /\ call.ret = "SUCCEEDED" =>
           /\ call.contexts_ # <<>> /\ call.yieldCols_ # <<>>
           /\ call.planContext # <<>>
           /\ \A v \in 1..Len(call.env.allVer.versions) :
                 call.env.allVer.versions[v] <= call.planContext[1].schema

C29_RequestCheckRejects == Checked => RejectsAsClaimed

\* The same once the vid length of the space has been resolved; a request whose
\* space does not resolve gets the code of getSpaceVidLen, whatever else it lacks.
C29_RequestCheckRejectsInResolvedSpace ==
    Checked =>
        /\ call.env.vidLen = "SUCCEEDED" => RejectsAsClaimed
        /\ call.env.vidLen # "SUCCEEDED" => call.ret = call.env.vidLen
        /\ (~SchemaDefect /\ ~EmptinessDefect /\ call.env.vidLen = "SUCCEEDED")
               => call.ret = "SUCCEEDED"

\* Both defects in a resolved space: the schema error wins.
C29_Witness ==
    /\ Checked
    /\ call.env.vidLen = "SUCCEEDED"
    /\ call.env.name /\ call.env.allVer.ok /\ call.env.allVer.versions = <<>>
    /\ call.req.contexts # <<>> /\ ~call.req.return_columns.is_set
    /\ call.ret = "E_TAG_NOT_FOUND"

(***************************************************************************)
(* C30: a built plan over n >= 1 contexts holds exactly n output nodes,    *)
(* each a dependency of the single DeDup node; the DeDup node is the sole  *)
(* dependency of the single Aggregate node, the last node of the plan;     *)
(* every other node is a dependency of exactly one node and no node        *)
(* depends on itself through any path; and no plan is returned when the    *)
(* index of some context is not found.                                     *)
(***************************************************************************)
NodesOfKind(kind) == {j \in 1..Len(call.plan) : call.plan[j].kind = kind}

DependentsOf(j) == {k \in 1..Len(call.plan) : j \in call.plan[k].deps}

SomeIndexMissing ==
    \E i \in 1..Len(call.req.contexts) :
        call.req.contexts[i].index_id \notin
            DOMAIN (IF call.req.is_edge THEN call.env.edgeIndex ELSE call.env.tagIndex)

C30_PlanIsTreeUnderDeDupAggregate ==
    /\ PlanBuilt =>
        /\ Len(call.req.contexts) >= 1
        /\ Cardinality(NodesOfKind("IndexOutputNode")) = Len(call.req.contexts)
        /\ \E d \in 1..Len(call.plan) :
             /\ NodesOfKind("DeDupNode") = {d}
             /\ call.plan[d].deps = NodesOfKind("IndexOutputNode")
             /\ NodesOfKind("AggregateNode") = {Len(call.plan)}
             /\ call.plan[Len(call.plan)].deps = {d}
        /\ \A j \in 1..(Len(call.plan) - 1) : Cardinality(DependentsOf(j)) = 1
        /\ DependentsOf(Len(call.plan)) = {}
        /\ \A j \in 1..Len(call.plan) : \A d \in call.plan[j].deps : d < j
    /\ (Planned /\ SomeIndexMissing) => (call.status # "OK" /\ call.plan = <<>>)

\* A plan over two contexts of different shapes.
C30_Witness ==
    /\ PlanBuilt
    /\ Len(call.req.contexts) = 2
    /\ Len(call.plan) = 8

(***************************************************************************)
(* C31: blockingWrites(BLOCK_ON) sends no BLOCK_ON RPC after the first one *)
(* that failed; blockingWrites(BLOCK_OFF) goes on through every remaining  *)
(* pair after a failure; each returns E_BLOCK_WRITE_FAILURE iff at least   *)
(* one of its RPCs failed.                                                 *)
(***************************************************************************)
BlockOnReturned(p) == bk[p].pc \in {"unblock", "snapshot"} /\ bk[p].info = {}
                      /\ EventsOf(bk[p].trace, "SNAPSHOT") = {}

BlockOffReturned(p) ==
    bk[p].pc \in {"commit", "done"} /\ bk[p].ret # "NONE"
        /\ (bk[p].pc = "done" => EventsOf(bk[p].trace, "COMMIT") = {})
        /\ bk[p].code \notin {"E_BACKUP_FAILURE"}

C31_BlockOnStopsBlockOffContinues ==
    \A p \in BackupProcs :
        LET tr == bk[p].trace
        IN  /\ \A i, j \in EventsOf(tr, "BLOCK_ON") : (i < j) => tr[i].ok
            /\ BlockOnReturned(p) =>
                  (bk[p].ret = "E_BLOCK_WRITE_FAILURE" <=> FailedOn(tr, "BLOCK_ON") # {})
            /\ BlockOffReturned(p) =>
                  /\ bk[p].ret = "E_BLOCK_WRITE_FAILURE" <=> FailedOn(tr, "BLOCK_OFF") # {}
                  /\ ~ScanFailed(p) => SentTo(tr, "BLOCK_OFF") = PartHolders(bk[p].spaces)

(***************************************************************************)
(* C32: once a CreateBackup request has completed, a VALID snapshot record *)
(* exists for its backup name iff it completed with SUCCEEDED: a request   *)
(* that completes with an error, a failure of the manifest step after the  *)
(* commit included, leaves no VALID record.                                *)
(***************************************************************************)
BackupCompleted(p) == bk[p].pc = "done" /\ bk[p].fin > 0

C32_ValidIffSucceeded ==
    \A p \in BackupProcs :
        BackupCompleted(p) => (IsValid(bk[p].name) <=> bk[p].code = "SUCCEEDED")

(***************************************************************************)
(* C33: when CreateBackup is at the manifest step, the result of           *)
(* createSnapshot has an entry for every chosen space, a chosen space      *)
(* without part records included, so the assertion of the manifest loop    *)
(* never fails; and a request that completed with SUCCEEDED has, for every *)
(* chosen space, one checkpoint entry per host holding a part of it.       *)
(***************************************************************************)
HostsOfSpace(id) == {t[2] : t \in PartHolders({id})}

C33_ManifestCoversChosenSpaces ==
    \A p \in BackupProcs :
        /\ bk[p].pc = "manifest" =>
              \A id \in bk[p].spaces : \E t \in bk[p].info : t[1] = id
        /\ bk[p].pc # "aborted"
        /\ (BackupCompleted(p) /\ bk[p].code = "SUCCEEDED") =>
              \A id \in bk[p].spaces : /\ bk[p].backupInfo[id].defined
                                       /\ bk[p].backupInfo[id].cp_dirs = HostsOfSpace(id)

(***************************************************************************)
(* C34: from the moment a CreateBackup holds the snapshot lock as writer   *)
(* until it completes, no DropSpace is past its own acquisition of the     *)
(* lock and no step removes a key, so every space the backup resolved      *)
(* still exists when its record is committed; DropSpace requests may hold  *)
(* the snapshot lock as readers together, and at most one of them holds    *)
(* the space lock and works on the store at a time.                        *)
(***************************************************************************)
\* The backups between the construction of their holder of the snapshot lock and
\* their completion.
SnapshotWriters ==
    {p \in DOMAIN bk : bk[p].pc \in {"hosts", "spaces", "prepare", "blockOn", "unblock",
                                      "snapshot", "export", "blockOff", "commit",
                                      "commitWait", "manifest"}}

DropsAtWork == {t \in DOMAIN dp : dp[t].pc \in {"getSpaceId", "collect", "removeWait"}}

BackupExcludesDrop ==
    /\ SnapshotWriters = {p \in DOMAIN bk : p \in locks["snapshot"].w}
    /\ SnapshotWriters # {} =>
        /\ \A t \in DOMAIN dp : /\ dp[t].pc \in {"start", "done"}
                                /\ inflight[t] = NoWrite
                                /\ t \notin locks["snapshot"].r
        /\ \A p \in SnapshotWriters : \A id \in bk[p].spaces :
              /\ KvHas(store, SpaceKey(id))
              /\ KvHas(store, IndexSpaceKey(store[SpaceKey(id)]))

DropsSerialized ==
    /\ Cardinality(DropsAtWork) <= 1
    /\ DropsAtWork = {t \in DOMAIN dp : t \in locks["space"].w}
    /\ \A t \in DropsAtWork : t \in locks["snapshot"].r

NoKeyRemovedUnderBackup ==
    SnapshotWriters # {} => \A k \in DOMAIN store : k \in DOMAIN store'

C34_BackupAndDropExclude ==
    [](BackupExcludesDrop /\ DropsSerialized) /\ [][NoKeyRemovedUnderBackup]_vars

\* The record of a backup of both spaces is committed while one DropSpace waits for
\* the snapshot lock; the other DropSpace found nothing to drop before.
C34_Witness ==
    \E p \in DOMAIN bk, t, u \in DOMAIN dp :
        /\ bk[p].pc = "manifest" /\ bk[p].spaces = {1, 2} /\ IsValid(bk[p].name)
        /\ dp[t].pc = "start"
        /\ dp[u].pc = "done" /\ dp[u].code = "E_NOT_FOUND"

(***************************************************************************)
(* C35: a host record removed by the expired-host cleanup of ListHosts     *)
(* has, when the removal is applied, a last heartbeat older than           *)
(* removed_threshold_sec: a host whose record was refreshed between the    *)
(* scan and the application of the remove is not deleted.                  *)
(***************************************************************************)
HostKeysRemoved == {k \in DOMAIN store : k[1] = "host" /\ k \notin DOMAIN store'}

C35_RemovedHostsAreExpired ==
    [][\A k \in HostKeysRemoved : clock - store[k].lastHB >= RemovedThresholdSec * 1000]_vars

(***************************************************************************)
(* C36: in a ListHosts(ALLOC) response every key of every host's           *)
(* leader_parts and all_parts is the name of a space that exists; a leader *)
(* record of a space that no longer exists adds no entry, and no space     *)
(* with the empty name, to any host's leader_parts.                        *)
(***************************************************************************)
ExistingSpaceNames == {store[k] : k \in {x \in DOMAIN store : x[1] = "space"}}

C36_PartsKeyedByExistingSpaces ==
    \A t \in AllocResponses :
        \A h \in DOMAIN lh[t].hostItems :
            /\ \A e \in lh[t].hostItems[h].leader_parts : e[1] \in ExistingSpaceNames
            /\ \A e \in lh[t].hostItems[h].all_parts : e[1] \in ExistingSpaceNames

(***************************************************************************)
(* C37: DropSpace(S) removes only keys of S: in every step every key that  *)
(* is removed is the spaceKey, the indexSpaceKey, a part, role or listener *)
(* key or the statis key of the space a running DropSpace resolved, and    *)
(* every other key keeps its value, lastUpdateTime excepted; no key is     *)
(* added.                                                                  *)
(***************************************************************************)
KeyOfDroppedSpace(k, d) ==
    \/ k = SpaceKey(d.spaceId)
    \/ k = IndexSpaceKey(d.name)
    \/ k[1] \in {"part", "role", "listener", "statis"} /\ k[2] = d.spaceId

DropsRemoving == {t \in DOMAIN dp : dp[t].pc = "removeWait" /\ dp[t].spaceId # 0}

DropFrame ==
    /\ \A k \in DOMAIN store :
          IF k \in DOMAIN store'
          THEN k # kLastUpdateTimeKey => store'[k] = store[k]
          ELSE \E t \in DropsRemoving : KeyOfDroppedSpace(k, dp[t])
    /\ \A k \in DOMAIN store' : k \in DOMAIN store \/ k = kLastUpdateTimeKey

C37_DropRemovesOnlyKeysOfItsSpace == [][DropFrame]_vars

\* Space 1 has been dropped and every record of space 2 is still in the store.
C37_Witness ==
    \E t \in DOMAIN dp :
        /\ Dropped(t) /\ dp[t].name = "s1"
        /\ ~KvHas(store, SpaceKey(1)) /\ ~KvHas(store, PartKey(1, 1))
        /\ ~KvHas(store, RoleKey(1, "u1"))
        /\ KvHas(store, SpaceKey(2)) /\ KvHas(store, IndexSpaceKey("s2"))
        /\ KvHas(store, PartKey(2, 1)) /\ KvHas(store, RoleKey(2, "u1"))
        /\ KvHas(store, ListenerKey(2, "ES", 1))

(***************************************************************************)
(* C38: autoIncrementId returns an id only if its write of that id to      *)
(* "__id__" succeeded; when the read fails with an error other than        *)
(* key-not-found, or the write fails, it returns the mapped error and the  *)
(* stored counter is what it was when the call began; and no id is         *)
(* returned twice, whatever calls failed in between.                       *)
(***************************************************************************)
IdReturns(t) == idPc[t] # "done" /\ idPc'[t] = "done"

\* The counter a call that chose `id` had read: id - 1, or nothing for id = 1.
CounterAsRead(s, id) ==
    IF id = 1 THEN ~KvHas(s, kIdKey) \/ s[kIdKey] = 0
    ELSE KvHas(s, kIdKey) /\ s[kIdKey] = id - 1

IdReturnIsSound ==
    \A t \in IdThreads :
        IdReturns(t) =>
            /\ store' = store
            /\ IF idRet'[t].ok
               THEN KvHas(store, kIdKey) /\ store[kIdKey] = idRet'[t].id
               ELSE /\ idRet'[t].code \in {MetaCommonTo(e) : e \in KvErrors}
                    /\ idPc[t] = "wait" => CounterAsRead(store, idLocal[t])

IdsReturnedOnce ==
    \A t, u \in IdThreads :
        (t # u /\ idPc[t] = "done" /\ idPc[u] = "done" /\ idRet[t].ok /\ idRet[u].ok)
            => idRet[t].id # idRet[u].id

C38_IdOnlyAfterItsWrite == []IdsReturnedOnce /\ [][IdReturnIsSound]_vars

\* A call whose write failed, a call whose read failed, and a call that then
\* returned the id the failed write had chosen.
C38_Witness ==
    \E t, u, v \in IdThreads :
        /\ idPc[t] = "done" /\ ~idRet[t].ok /\ idLocal[t] # 0
        /\ idPc[u] = "done" /\ ~idRet[u].ok /\ idLocal[u] = 0
        /\ idPc[v] = "done" /\ idRet[v].ok /\ idRet[v].id = idLocal[t]

(***************************************************************************)
(* C39: checkIndexExist(fields, item) never reads item's fields past their *)
(* end: every call ends with a boolean, and the call returns false when    *)
(* fields is longer than item's fields, a matching common prefix included. *)
(***************************************************************************)
C39_NoReadPastItemFields ==
    (call.pc = "done" /\ call.fn = "checkIndexExist") =>
        /\ call.ret \in {"true", "false"}
        /\ Len(call.fields) > Len(call.item) => call.ret = "false"

(***************************************************************************)
(* C40: every id autoIncrementId returns is strictly greater than every id *)
(* returned before it, also at the top of the 32-bit range: with 2^31 - 1  *)
(* stored, the next call returns no negative and no already issued id.     *)
(***************************************************************************)
IdReturnIsLargest ==
    \A t \in IdThreads :
        (IdReturns(t) /\ idRet'[t].ok) =>
            /\ idRet'[t].id >= 0
            /\ idRet'[t].id > initId
            /\ \A u \in IdThreads :
                 (idPc[u] = "done" /\ idRet[u].ok) => idRet'[t].id > idRet[u].id

C40_IdsStrictlyIncrease == [][IdReturnIsLargest]_vars

=============================================================================
